---- MODULE Spec2Model ----
(***************************************************************************)
(* Verification model of mcp-shrimp-task-manager: the debate-protocol      *)
(* configuration singleton, the cognitive router, the JSON task store and  *)
(* the verify_task scoring pipeline.                                       *)
(*                                                                         *)
(* Conventions.                                                            *)
(*  - A JavaScript object is a TLA+ function from its own property names   *)
(*    to values; a property the object does not have is a name outside     *)
(*    its DOMAIN, and reading it yields `undefined`.                       *)
(*  - Weights (0.4, 0.35, ...) are kept in hundredths (40, 35, ...), so    *)
(*    1.0 is 100 and the tolerance 0.01 is 1.                              *)
(***************************************************************************)
EXTENDS Integers, Sequences, FiniteSets, TLC

VARIABLES
    config,      \* DebateConfigLoader.config, the active configuration
    ret,         \* what the last call returned (or that it threw)
    rtTask,      \* the task handed to CognitiveRouter.assessTaskComplexity
    rtOut,       \* the assessment it returned, once it has returned
    tasks,       \* data/tasks.json: the array of stored tasks
    episodes,    \* data/episodic_memory: episode_<taskId>.json, by task id
    idPool,      \* the identifiers uuidv4() has yet to hand out
    clock,       \* the wall clock, read by new Date() and Date.now()
    scIn,        \* the arguments handed to a scoring function
    scOut,       \* what the scoring function returned, once it has returned
    reader,      \* the configuration object a caller of getConfig() holds
    mcp,         \* the MCPIntegrationLayer: its settings and the calls it made
    procs,       \* the store operations in flight, each with what it has read
    monitor      \* the RoutingPerformanceMonitor: its history and its metrics

routerVars == <<rtTask, rtOut>>
storeVars == <<tasks, episodes, idPool, clock>>
scoreVars == <<scIn, scOut>>
sideVars == <<mcp, procs, monitor>>
auxVars == <<reader, sideVars>>
vars == <<config, ret, rtTask, rtOut, tasks, episodes, idPool, clock, scIn, scOut, auxVars>>

(***************************************************************************)
(* JavaScript object helpers                                               *)
(***************************************************************************)

\* The empty object {}.
EmptyObj == <<>>

\* { ...a, ...b }: own properties of a, overridden by own properties of b.
Spread(a, b) ==
    [k \in (DOMAIN a) \cup (DOMAIN b) |-> IF k \in DOMAIN b THEN b[k] ELSE a[k]]

\* (o.k || {}) for a section that is an object when present.
OrEmpty(o, k) == IF k \in DOMAIN o THEN o[k] ELSE EmptyObj

Abs(x) == IF x < 0 THEN -x ELSE x

(***************************************************************************)
(* DEFAULT_DEBATE_CONFIG                                                   *)
(* Incentive bonuses and penalties are kept in hundredths of a point, like *)
(* the weights; maxScoreDiscrepancy is in whole points.                    *)
(***************************************************************************)

Profiles == <<"light", "moderate", "rigorous">>

DefaultLight ==
    [weights    |-> [prover |-> 40, estimator |-> 30, synthesis |-> 30],
     incentives |-> [consensusBonus |-> 150, conflictPenalty |-> 100,
                     scoreDiscrepancyPenalty |-> 500, maxScoreDiscrepancy |-> 35],
     processing |-> [requiredConsensusPoints |-> 1, maxAllowedConflicts |-> 3,
                     evidenceRequirement |-> "MINIMAL"]]

DefaultModerate ==
    [weights    |-> [prover |-> 35, estimator |-> 35, synthesis |-> 30],
     incentives |-> [consensusBonus |-> 200, conflictPenalty |-> 150,
                     scoreDiscrepancyPenalty |-> 1000, maxScoreDiscrepancy |-> 25],
     processing |-> [requiredConsensusPoints |-> 2, maxAllowedConflicts |-> 2,
                     evidenceRequirement |-> "MODERATE"]]

DefaultRigorous ==
    [weights    |-> [prover |-> 30, estimator |-> 40, synthesis |-> 30],
     incentives |-> [consensusBonus |-> 300, conflictPenalty |-> 200,
                     scoreDiscrepancyPenalty |-> 1500, maxScoreDiscrepancy |-> 20],
     processing |-> [requiredConsensusPoints |-> 3, maxAllowedConflicts |-> 1,
                     evidenceRequirement |-> "COMPREHENSIVE"]]

DefaultSuspiciousPatternKeywords ==
    << "fake", "mock", "placeholder", "todo", "fixme", "hack",
       "temporary", "incomplete", "unfinished", "broken",
       "inconsistent", "contradictory", "misleading", "test", "dummy",
       "stub", "not implemented", "coming soon" >>

DEFAULT_DEBATE_CONFIG ==
    [intensitySettings |->
        [light |-> DefaultLight, moderate |-> DefaultModerate,
         rigorous |-> DefaultRigorous],
     antiObfuscation |->
        [enabled |-> TRUE,
         evidenceThreshold |-> 70,
         manipulationSensitivity |-> "MEDIUM",
         suspiciousPatternKeywords |-> DefaultSuspiciousPatternKeywords,
         truthfulnessWeights |->
            [consistencyWeight |-> 40, evidenceWeight |-> 35,
             implementationWeight |-> 25]],
     performance |->
        [maxProcessingTimeMs |-> 5000, maxRecommendations |-> 5,
         enableAnalytics |-> TRUE, logLevel |-> "INFO"],
     scoring |->
        [completionThreshold |-> 80,
         confidenceThresholds |-> [low |-> 75, medium |-> 85, high |-> 95],
         scoringPrecision |-> 2]]

(***************************************************************************)
(* DebateConfigValidator.validate                                          *)
(***************************************************************************)

WeightKeys == {"prover", "estimator", "synthesis"}

\* settings.weights.prover + .estimator + .synthesis is NaN as soon as one
\* of the three is undefined.
WeightSumIsNaN(w) == ~(WeightKeys \subseteq DOMAIN w)

WeightSum(w) == w.prover + w.estimator + w.synthesis

\* Math.abs(weightSum - 1.0) > 0.01; every comparison with NaN is false.
WeightSumRejected(w) ==
    /\ ~WeightSumIsNaN(w)
    /\ Abs(WeightSum(w) - 100) > 1

\* Reading settings.weights.prover throws a TypeError when settings has no
\* weights object.
ValidateThrows(cfg) ==
    \E i \in DOMAIN Profiles :
        "weights" \notin DOMAIN cfg.intensitySettings[Profiles[i]]

\* a >= b on two properties of o; false when either is undefined.
JsGeq(o, a, b) ==
    /\ a \in DOMAIN o
    /\ b \in DOMAIN o
    /\ o[a] >= o[b]

\* o.k < lo || o.k > hi; false when o.k is undefined.
JsOutside(o, k, lo, hi) ==
    /\ k \in DOMAIN o
    /\ (o[k] < lo \/ o[k] > hi)

\* o.k <= 0; false when o.k is undefined.
JsNotPositive(o, k) ==
    /\ k \in DOMAIN o
    /\ o[k] <= 0

RECURSIVE WeightErrors(_, _)
WeightErrors(cfg, i) ==
    IF i > Len(Profiles) THEN <<>>
    ELSE (IF WeightSumRejected(cfg.intensitySettings[Profiles[i]].weights)
          THEN << <<"weights do not sum to 1.0", Profiles[i]>> >>
          ELSE <<>>)
         \o WeightErrors(cfg, i + 1)

ValidateErrors(cfg) ==
    WeightErrors(cfg, 1)
    \o (IF JsOutside(cfg.scoring, "completionThreshold", 0, 100)
        THEN << <<"Completion threshold must be between 0 and 100">> >>
        ELSE <<>>)
    \o (IF JsOutside(cfg.antiObfuscation, "evidenceThreshold", 0, 100)
        THEN << <<"Evidence threshold must be between 0 and 100">> >>
        ELSE <<>>)
    \o (IF \/ JsGeq(cfg.scoring.confidenceThresholds, "low", "medium")
           \/ JsGeq(cfg.scoring.confidenceThresholds, "medium", "high")
        THEN << <<"Confidence thresholds must be in ascending order">> >>
        ELSE <<>>)
    \o (IF JsNotPositive(cfg.performance, "maxProcessingTimeMs")
        THEN << <<"Max processing time must be positive">> >>
        ELSE <<>>)
    \o (IF JsNotPositive(cfg.performance, "maxRecommendations")
        THEN << <<"Max recommendations must be positive">> >>
        ELSE <<>>)

validate(cfg) ==
    [isValid |-> Len(ValidateErrors(cfg)) = 0, errors |-> ValidateErrors(cfg)]

(***************************************************************************)
(* DebateConfigLoader                                                      *)
(***************************************************************************)

Sections == {"intensitySettings", "antiObfuscation", "performance", "scoring"}

\* { ...base, ...updates, intensitySettings: {...}, antiObfuscation: {...},
\*   performance: {...}, scoring: {...} }: one level deep, so a nested object
\* an update names (a profile, confidenceThresholds) replaces the old one whole.
mergeConfig(base, updates) ==
    Spread(Spread(base, updates),
           [s \in Sections |-> Spread(base[s], OrEmpty(updates, s))])

getConfig == config

\* A loader that swaps the merged configuration in before validating it.
updateConfigStore_SwapFirst(cfg, updates) == mergeConfig(cfg, updates)

\* The value updateConfig leaves in this.config.
updateConfigStore(cfg, updates) ==
    IF validate(mergeConfig(cfg, updates)).isValid
    THEN mergeConfig(cfg, updates)
    ELSE cfg

\* The value updateConfig returns.
updateConfigReturn(cfg, updates) ==
    IF validate(mergeConfig(cfg, updates)).isValid
    THEN [op |-> "updateConfig", threw |-> FALSE, success |-> TRUE, errors |-> <<>>]
    ELSE [op |-> "updateConfig", threw |-> FALSE, success |-> FALSE,
          errors |-> validate(mergeConfig(cfg, updates)).errors]

ThrewTypeError ==
    [op |-> "updateConfig", threw |-> TRUE, success |-> FALSE, errors |-> <<>>]

\* A loader that writes the merged configuration into the object it holds.
snapshotAfterSwap_InPlace(snapshot, newConfig) ==
    IF snapshot.held /\ snapshot.current
    THEN [snapshot EXCEPT !.value = newConfig]
    ELSE snapshot

\* What a caller of getConfig() holds once this.config names newConfig, an
\* object built afresh: the object the caller was handed, which is the
\* active one no longer.
snapshotAfterSwap(snapshot, newConfig) ==
    IF snapshot.held
    THEN [snapshot EXCEPT !.current = FALSE]
    ELSE snapshot

updateConfig(updates) ==
    /\ UNCHANGED <<routerVars, scoreVars, storeVars, sideVars>>
    /\ IF ValidateThrows(mergeConfig(config, updates))
       THEN /\ config' = config
            /\ ret' = ThrewTypeError
            /\ reader' = reader
       ELSE /\ config' = updateConfigStore(config, updates)
            /\ ret' = updateConfigReturn(config, updates)
            /\ reader' =
                  IF validate(mergeConfig(config, updates)).isValid
                  THEN snapshotAfterSwap(reader, mergeConfig(config, updates))
                  ELSE reader

resetToDefault ==
    /\ UNCHANGED <<routerVars, scoreVars, storeVars, sideVars>>
    /\ config' = DEFAULT_DEBATE_CONFIG
    /\ ret' = [op |-> "resetToDefault", threw |-> FALSE, success |-> TRUE,
                  errors |-> <<>>]
    /\ reader' = snapshotAfterSwap(reader, DEFAULT_DEBATE_CONFIG)

\* getConfig(), called by a reader that keeps what it is handed: this.config
\* itself, not a copy.
GetConfig ==
    /\ reader' = [held |-> TRUE, current |-> TRUE, value |-> getConfig]
    /\ ret' = [op |-> "getConfig", threw |-> FALSE, success |-> TRUE,
               errors |-> <<>>]
    /\ UNCHANGED <<config, routerVars, scoreVars, storeVars, sideVars>>

(***************************************************************************)
(* Update documents handed to updateConfig.  A document names any of the   *)
(* four sections; a section may be partial, and so may the objects nested  *)
(* in it (a profile without weights, weights without estimator, ...).      *)
(* Weight values avoid the exact tolerance boundary (sum 0.99 / 1.01),     *)
(* where binary floating point and exact arithmetic disagree.              *)
(***************************************************************************)

DefaultProfile(p) == DEFAULT_DEBATE_CONFIG.intensitySettings[p]

WeightDocs ==
    { [prover |-> 50, estimator |-> 50, synthesis |-> 20],   \* sums to 1.2
      [prover |-> 50, estimator |-> 30, synthesis |-> 20],   \* sums to 1.0
      [prover |-> 50] }                                      \* only one weight

\* The profile with its weights replaced (as the repository's tests write
\* it), a profile that carries nothing but incomplete weights, and a profile
\* that carries no weights at all.
ProfileDocs(p) ==
    { Spread(DefaultProfile(p), [weights |-> w]) : w \in WeightDocs }
    \cup { [incentives |-> DefaultProfile(p).incentives] }

IntensityDocs ==
    UNION { { [q \in {Profiles[i]} |-> d] : d \in ProfileDocs(Profiles[i]) }
            : i \in DOMAIN Profiles }

ThresholdDocs ==
    { [low |-> 90, medium |-> 80, high |-> 95],
      [low |-> 60, medium |-> 70, high |-> 90],
      [low |-> 80] }

ScoringDocs ==
    { [completionThreshold |-> c] : c \in {-10, 60, 150} }
    \cup { [confidenceThresholds |-> t] : t \in ThresholdDocs }
    \cup { [completionThreshold |-> 60, confidenceThresholds |-> [low |-> 80]],
           [completionThreshold |-> 150,
            confidenceThresholds |-> [low |-> 90, medium |-> 80, high |-> 95]] }

AntiObfuscationDocs == { [evidenceThreshold |-> e] : e \in {50, 120} }

PerformanceDocs ==
    { [maxProcessingTimeMs |-> 10000], [maxProcessingTimeMs |-> 0],
      [maxRecommendations |-> 0] }

\* Documents that name one section, and documents that name two.
UpdateDocs ==
    { [intensitySettings |-> d] : d \in IntensityDocs }
    \cup { [scoring |-> sc] : sc \in ScoringDocs }
    \cup { [antiObfuscation |-> ao] : ao \in AntiObfuscationDocs }
    \cup { [performance |-> pf] : pf \in PerformanceDocs }
    \cup { [scoring |-> sc, performance |-> pf] :
              sc \in ScoringDocs, pf \in PerformanceDocs }

\* No caller holds a configuration object.
NoSnapshot == [held |-> FALSE]

ReaderIdle == reader = NoSnapshot

\* No MCPIntegrationLayer, no store operation in flight and no
\* RoutingPerformanceMonitor.
SideIdle ==
    /\ mcp = [constructed |-> FALSE]
    /\ procs = <<>>
    /\ monitor = [constructed |-> FALSE]

AuxIdle == ReaderIdle /\ SideIdle

\* No scoring function is being called.
ScoreIdle ==
    /\ scIn = [fn |-> "none"]
    /\ scOut = [returned |-> FALSE]

\* An empty data directory.
StoreIdle ==
    /\ tasks = <<>>
    /\ episodes = EmptyObj
    /\ idPool = <<>>
    /\ clock = 0

\* The loader after getInstance().
LoaderInit ==
    /\ config = DEFAULT_DEBATE_CONFIG
    /\ ret = [op |-> "getInstance", threw |-> FALSE, success |-> TRUE,
                 errors |-> <<>>]

(***************************************************************************)
(* Strings                                                                 *)
(* A string is the sequence of its characters.                             *)
(***************************************************************************)

\* The lower-case letter of each upper-case ASCII letter.
LowerOf ==
    [A |-> "a", B |-> "b", C |-> "c", D |-> "d", E |-> "e", F |-> "f", G |-> "g", H |-> "h", I |-> "i",
     J |-> "j", K |-> "k", L |-> "l", M |-> "m", N |-> "n", O |-> "o", P |-> "p", Q |-> "q", R |-> "r",
     S |-> "s", T |-> "t", U |-> "u", V |-> "v", W |-> "w", X |-> "x", Y |-> "y", Z |-> "z"]

\* The i-th character of s, counting from 1.
CharAt(s, i) == SubSeq(s, i, i)

\* String.prototype.toLowerCase, on ASCII text.
RECURSIVE ToLowerCase(_)
ToLowerCase(s) ==
    IF Len(s) = 0 THEN ""
    ELSE IF Len(s) = 1 THEN (IF s \in DOMAIN LowerOf THEN LowerOf[s] ELSE s)
    ELSE ToLowerCase(SubSeq(s, 1, Len(s) \div 2))
         \o ToLowerCase(SubSeq(s, Len(s) \div 2 + 1, Len(s)))

\* String.prototype.includes: k occurs in s as a contiguous substring.
Includes(s, k) ==
    \E i \in 0..(Len(s) - Len(k)) : SubSeq(s, i + 1, i + Len(k)) = k

\* "x".repeat(n)
RECURSIVE Filler(_)
Filler(n) ==
    IF n <= 0 THEN ""
    ELSE IF n = 1 THEN "x"
    ELSE Filler(n \div 2) \o Filler(n - n \div 2)

\* text, followed by filler characters up to n characters in all.
Pad(text, n) == text \o Filler(n - Len(text))

\* simpleTask.description of test_cognitive_routing.js (42 characters).
T_simpleDescription ==
    "A basic task for testing cognitive routing"

\* simpleTask.notes of test_cognitive_routing.js.
T_simpleNotes ==
    "This should route to System 1 (Supabase MCP)"

\* complexTask.description of test_cognitive_routing.js (343 characters).
T_complexDescription ==
    "This is a very complex task that involves multiple systems, "
    \o "requires extensive analysis, temporal knowledge management, and "
    \o "sophisticated coordination between different architectural "
    \o "components. It includes multiple dependencies, requires "
    \o "episodic memory storage, and involves complex reasoning "
    \o "patterns that exceed simple database operations."

\* complexTask.notes of test_cognitive_routing.js.
T_complexNotes ==
    "Additional notes about temporal context and knowledge "
    \o "management requirements"

\* The same description naming "architecture" itself (343 characters).
T_scenarioB ==
    "This is a very complex task that involves multiple systems, "
    \o "requires extensive analysis, temporal knowledge management, and "
    \o "sophisticated coordination between individual architecture "
    \o "components. It includes multiple dependencies, requires "
    \o "episodic memory storage, and involves complex reasoning "
    \o "patterns that exceed simple database operations."

\* A short description that holds none of the router's keywords.
T_plainDescription ==
    "Rename the button label on the login page"


\* createMockTask().description of the repository's tests.
T_mockDescription ==
    "This is a comprehensive test task for validation"

\* createMockTask().implementationGuide.
T_mockGuide ==
    "Follow the implementation steps carefully"

\* createMockTask().verificationCriteria.
T_mockCriteria ==
    "Ensure all requirements are met with proper testing"

\* Summaries the repository's tests verify tasks with.
T_guidelinesSummary ==
    "Completed the task implementation following all guidelines and "
    \o "verification criteria."

T_testingSummary ==
    "Successfully implemented all requirements with thorough testing "
    \o "and documentation."

T_fakeSummary ==
    "This is fake and incomplete mock implementation"

T_scenarioCSummary ==
    "This is a mock implementation that is incomplete"

T_qualitySummary ==
    "High quality implementation with all requirements met"

T_partialSummary ==
    "Partial implementation with some issues"

\* A summary that repeats the words of the mock task and holds no
\* suspicious keyword.
T_faithfulSummary ==
    "Comprehensive validation task done: implementation steps were "
    \o "followed carefully, and all requirements are met in a proper "
    \o "way."

\* One sentence, four times.
T_repeatedSummary ==
    "All the steps are done now. All the steps are done now. All the "
    \o "steps are done now. All the steps are done now."

\* A summary about something else (tests: "completely unrelated").
T_unrelatedSummary ==
    "Created a simple dashboard with charts and graphs."

(***************************************************************************)
(* TaskComplexityLevel and TaskComplexityThresholds (types/index.ts)       *)
(* The enum's values are the strings "低複雜度", "中等複雜度", "高複雜度"  *)
(* and "極高複雜度"; each is kept as the sequence of its UTF-16 code       *)
(* units, which is what JavaScript's relational operators compare.         *)
(***************************************************************************)

TaskComplexityLevel ==
    [LOW       |-> <<20302, 35079, 38620, 24230>>,
     MEDIUM    |-> <<20013, 31561, 35079, 38620, 24230>>,
     HIGH      |-> <<39640, 35079, 38620, 24230>>,
     VERY_HIGH |-> <<26997, 39640, 35079, 38620, 24230>>]

TaskComplexityThresholds ==
    [DESCRIPTION_LENGTH |-> [MEDIUM |-> 500, HIGH |-> 1000, VERY_HIGH |-> 2000],
     DEPENDENCIES_COUNT |-> [MEDIUM |-> 2, HIGH |-> 5, VERY_HIGH |-> 10],
     NOTES_LENGTH       |-> [MEDIUM |-> 200, HIGH |-> 500, VERY_HIGH |-> 1000]]

\* The texts tasks are made of: the descriptions and notes of the
\* repository's routing tests, and the same padded to lengths on either
\* side of each length threshold.
keywordsBelow500 ==
    Pad(T_complexDescription, TaskComplexityThresholds.DESCRIPTION_LENGTH.MEDIUM - 1)

plain500 ==
    Pad(T_plainDescription, TaskComplexityThresholds.DESCRIPTION_LENGTH.MEDIUM)

plainBelow1000 ==
    Pad(T_plainDescription, TaskComplexityThresholds.DESCRIPTION_LENGTH.HIGH - 1)

keywords1000 ==
    Pad(T_complexDescription, TaskComplexityThresholds.DESCRIPTION_LENGTH.HIGH)

notes200 == Pad(T_simpleNotes, TaskComplexityThresholds.NOTES_LENGTH.MEDIUM)

notes201 == Pad(T_simpleNotes, TaskComplexityThresholds.NOTES_LENGTH.MEDIUM + 1)

notes500 == Pad(T_complexNotes, TaskComplexityThresholds.NOTES_LENGTH.HIGH)

notes501 == Pad(T_simpleNotes, TaskComplexityThresholds.NOTES_LENGTH.HIGH + 1)

DescriptionTexts ==
    {T_simpleDescription, T_plainDescription, T_complexDescription, T_scenarioB,
     keywordsBelow500, plain500, plainBelow1000, keywords1000}

NotesTexts ==
    {"", T_simpleNotes, T_complexNotes, notes200, notes201, notes500, notes501}

(***************************************************************************)
(* CognitiveRouter.assessTaskComplexity (tools/cognitiveRouter.ts)         *)
(***************************************************************************)

supabaseThreshold == TaskComplexityThresholds.DESCRIPTION_LENGTH.MEDIUM
graphitiThreshold == TaskComplexityThresholds.DESCRIPTION_LENGTH.HIGH
dependencyThresholdMedium == TaskComplexityThresholds.DEPENDENCIES_COUNT.MEDIUM
dependencyThresholdHigh == TaskComplexityThresholds.DEPENDENCIES_COUNT.HIGH

temporalKeywords ==
    << "temporal", "time", "sequence", "history", "memory", "context",
       "knowledge" >>

\* !!task.notes: notes is neither undefined nor the empty string.
HasNotes(task) ==
    /\ "notes" \in DOMAIN task
    /\ Len(task.notes) > 0

\* task.notes?.length || 0
NotesLength(task) == IF HasNotes(task) THEN Len(task.notes) ELSE 0

\* temporalKeywords.some(keyword => description.toLowerCase().includes(keyword)
\*                        || (task.notes && notes.toLowerCase().includes(keyword)))
HasTemporalContext(task) ==
    \E i \in DOMAIN temporalKeywords :
        \/ Includes(ToLowerCase(task.description), temporalKeywords[i])
        \/ /\ HasNotes(task)
           /\ Includes(ToLowerCase(task.notes), temporalKeywords[i])

\* A router that gives a long description 50 points.
DescriptionScore_LongIs50(descriptionLength) ==
    IF descriptionLength < supabaseThreshold THEN 10
    ELSE IF descriptionLength < graphitiThreshold THEN 30
    ELSE 50

DescriptionScore(descriptionLength) ==
    IF descriptionLength < supabaseThreshold THEN 10
    ELSE IF descriptionLength < graphitiThreshold THEN 30
    ELSE 40

DependenciesScore(dependenciesCount) ==
    IF dependenciesCount < dependencyThresholdMedium THEN 5
    ELSE IF dependenciesCount < dependencyThresholdHigh THEN 15
    ELSE 30

NotesScore(notesLength) ==
    IF notesLength > TaskComplexityThresholds.NOTES_LENGTH.HIGH THEN 20
    ELSE IF notesLength > TaskComplexityThresholds.NOTES_LENGTH.MEDIUM THEN 10
    ELSE 0

ComplexityScore(task) ==
    DescriptionScore(Len(task.description))
    + DependenciesScore(Len(task.dependencies))
    + NotesScore(NotesLength(task))
    + (IF HasTemporalContext(task) THEN 10 ELSE 0)

\* A router whose Low band ends just below 25.
LevelOfScore_LowBelow25(complexityScore) ==
    IF complexityScore < 25 THEN TaskComplexityLevel.LOW
    ELSE IF complexityScore <= 50 THEN TaskComplexityLevel.MEDIUM
    ELSE IF complexityScore <= 75 THEN TaskComplexityLevel.HIGH
    ELSE TaskComplexityLevel.VERY_HIGH

LevelOfScore(complexityScore) ==
    IF complexityScore <= 25 THEN TaskComplexityLevel.LOW
    ELSE IF complexityScore <= 50 THEN TaskComplexityLevel.MEDIUM
    ELSE IF complexityScore <= 75 THEN TaskComplexityLevel.HIGH
    ELSE TaskComplexityLevel.VERY_HIGH

RoutingJustification(level, hasTemporalContext) ==
    IF level = TaskComplexityLevel.LOW
    THEN << "Low complexity task suitable for fast System 1 processing",
            "High-throughput database operations via Supabase MCP" >>
    ELSE IF level = TaskComplexityLevel.MEDIUM
    THEN << "Medium complexity requires hybrid System 1/System 2 coordination",
            "Initial processing via Supabase, complex analysis via Graphiti" >>
    ELSE << "High complexity requires deliberative System 2 processing",
            "Episodic memory storage and temporal knowledge graphs via Graphiti MCP" >>
         \o (IF hasTemporalContext
             THEN << "Temporal context detected - enhanced memory capabilities required" >>
             ELSE << >>)

\* A router that asks for episodic memory at level High only.
RoutingAssessment_EpisodicForHighOnly(task, complexityScore, level, hasTemporalContext) ==
    [level |-> level,
     metrics |-> [descriptionLength |-> Len(task.description),
                  dependenciesCount |-> Len(task.dependencies),
                  notesLength |-> NotesLength(task),
                  hasNotes |-> HasNotes(task)],
     recommendations |-> RoutingJustification(level, hasTemporalContext),
     systemRecommendation |->
        IF level = TaskComplexityLevel.LOW THEN "SYSTEM_1"
        ELSE IF level = TaskComplexityLevel.MEDIUM THEN "HYBRID"
        ELSE "SYSTEM_2",
     mcpServerTarget |->
        IF level = TaskComplexityLevel.LOW THEN "supabase"
        ELSE IF level = TaskComplexityLevel.MEDIUM THEN "hybrid"
        ELSE "graphiti",
     routingJustification |-> RoutingJustification(level, hasTemporalContext),
     episodicMemoryRequired |->
        (level = TaskComplexityLevel.HIGH),
     temporalContextRequired |-> hasTemporalContext,
     complexityScore |-> complexityScore]

\* The assessment returned for a task with this score, level and temporal
\* context.
RoutingAssessment(task, complexityScore, level, hasTemporalContext) ==
    [level |-> level,
     metrics |-> [descriptionLength |-> Len(task.description),
                  dependenciesCount |-> Len(task.dependencies),
                  notesLength |-> NotesLength(task),
                  hasNotes |-> HasNotes(task)],
     recommendations |-> RoutingJustification(level, hasTemporalContext),
     systemRecommendation |->
        IF level = TaskComplexityLevel.LOW THEN "SYSTEM_1"
        ELSE IF level = TaskComplexityLevel.MEDIUM THEN "HYBRID"
        ELSE "SYSTEM_2",
     mcpServerTarget |->
        IF level = TaskComplexityLevel.LOW THEN "supabase"
        ELSE IF level = TaskComplexityLevel.MEDIUM THEN "hybrid"
        ELSE "graphiti",
     routingJustification |-> RoutingJustification(level, hasTemporalContext),
     episodicMemoryRequired |->
        (level # TaskComplexityLevel.LOW /\ level # TaskComplexityLevel.MEDIUM),
     temporalContextRequired |-> hasTemporalContext,
     complexityScore |-> complexityScore]

\* The assessment of a task whose score came out as complexityScore.
AssessmentOfScore(task, complexityScore, hasTemporalContext) ==
    RoutingAssessment(task, complexityScore, LevelOfScore(complexityScore),
                      hasTemporalContext)

assessTaskComplexity(task) ==
    AssessmentOfScore(task, ComplexityScore(task), HasTemporalContext(task))

(***************************************************************************)
(* Anti-obfuscation validation (utils/antiObfuscation.ts)                  *)
(***************************************************************************)

\* seq restricted to the positions in keep, in order.
RECURSIVE Pick(_, _, _)
Pick(seq, keep, i) ==
    IF i > Len(seq) THEN <<>>
    ELSE (IF i \in keep THEN <<seq[i]>> ELSE <<>>) \o Pick(seq, keep, i + 1)

Min(a, b) == IF a < b THEN a ELSE b
Max(a, b) == IF a > b THEN a ELSE b

\* \w of a regular expression, on lower-case text.
WordChars ==
    {
      "a", "b", "c", "d", "e", "f", "g", "h", "i", "j", "k", "l", "m", "n",
      "o", "p", "q", "r", "s", "t", "u", "v", "w", "x", "y", "z", "0", "1",
      "2", "3", "4", "5", "6", "7", "8", "9", "_" }

stopWords ==
    { "the", "and", "or", "but", "in", "on", "at", "to", "for", "of", "with",
      "by", "this", "that", "these", "those", "is", "are", "was", "were", "be",
      "been", "have", "has", "had", "do", "does", "did", "will", "would",
      "could", "should", "may", "might", "can", "must", "shall", "need", "use",
      "used", "using", "make", "made", "get", "got", "take", "took", "come",
      "came", "go", "went" }

isCommonWord(word) == word \in stopWords

\* The maximal runs of s over the positions in body, in order.
RunsOver(s, body) ==
    LET starts == { i \in body : (i - 1) \notin body }
        ends == { j \in body : (j + 1) \notin body }
        EndOf(i) == CHOOSE j \in ends :
                        j >= i /\ \A k \in ends : k >= i => j <= k
        Nth(n) == CHOOSE i \in starts :
                      Cardinality({ j \in starts : j < i }) = n - 1
    IN  [n \in 1..Cardinality(starts) |-> SubSeq(s, Nth(n), EndOf(Nth(n)))]

\* text.replace(/[^\w\s]/g, ' ').split(/\s+/): the maximal runs of word
\* characters of s (the empty strings split() also yields are dropped by
\* the length filter of extractKeywords).
SplitWords(s) ==
    LET runs == RunsOver(s, { i \in 1..Len(s) : CharAt(s, i) \in WordChars })
    IN  { runs[n] : n \in DOMAIN runs }

\* The distinct words of more than two characters that are not stop words.
\* The code returns them as an array without duplicates; its callers only
\* count members, so the model keeps the set.
extractKeywords(text) ==
    { word \in SplitWords(ToLowerCase(text)) :
        Len(word) > 2 /\ ~isCommonWord(word) }

\* keywords.filter(k => summaryKeywords.includes(k)).length
\*     / Math.max(keywords.length, 1) < tenths / 10
AlignmentBelow(keywords, summaryKeywords, tenths) ==
    10 * Cardinality(keywords \cap summaryKeywords)
        < tenths * Max(Cardinality(keywords), 1)

\* task.field is a non-empty string.
HasText(task, field) ==
    /\ field \in DOMAIN task
    /\ Len(task[field]) > 0

\* The checks of validateTaskEvidence that fail against the keywords of the
\* summary, each with the points it takes off.
EvidenceIssues(task, summaryKeywords) ==
    (IF AlignmentBelow(extractKeywords(task.description), summaryKeywords, 3)
     THEN << [issue |-> "description", penalty |-> 20] >> ELSE <<>>)
    \o (IF /\ HasText(task, "verificationCriteria")
           /\ AlignmentBelow(extractKeywords(task.verificationCriteria),
                             summaryKeywords, 4)
        THEN << [issue |-> "verificationCriteria", penalty |-> 15] >> ELSE <<>>)
    \o (IF /\ HasText(task, "implementationGuide")
           /\ AlignmentBelow(extractKeywords(task.implementationGuide),
                             summaryKeywords, 3)
        THEN << [issue |-> "implementationGuide", penalty |-> 10] >> ELSE <<>>)

RECURSIVE SumPenalties(_, _)
SumPenalties(issues, i) ==
    IF i > Len(issues) THEN 0 ELSE issues[i].penalty + SumPenalties(issues, i + 1)

\* { score: Math.max(0, score), issues }
EvidenceValidationResult(issues) ==
    [score  |-> Max(0, 100 - SumPenalties(issues, 1)),
     issues |-> [i \in DOMAIN issues |-> issues[i].issue]]

validateTaskEvidence(task, summary) ==
    EvidenceValidationResult(EvidenceIssues(task, extractKeywords(summary)))

\* text.split(/[.!?]+/): the pieces of s between runs of sentence marks
\* (the empty pieces split() also yields are dropped by the caller's filter).
SplitPhrases(s) ==
    RunsOver(s, { i \in 1..Len(s) : CharAt(s, i) \notin {".", "!", "?"} })

\* String.prototype.trim; the texts of this model hold no white space but
\* the space character.
Trim(s) ==
    LET inked == { i \in 1..Len(s) : CharAt(s, i) # " " }
    IN  IF inked = {} THEN ""
        ELSE SubSeq(s, CHOOSE i \in inked : \A j \in inked : i <= j,
                       CHOOSE i \in inked : \A j \in inked : i >= j)

\* Of the normalised phrases, those said more than three times and longer
\* than ten characters, each once, in the order of first use.
RepeatedAmong(phrases) ==
    LET said == { i \in DOMAIN phrases : Len(phrases[i]) > 0 }
        Count(p) == Cardinality({ i \in said : phrases[i] = p })
    IN  Pick(phrases,
             { i \in said : /\ \A j \in said : j < i => phrases[j] # phrases[i]
                            /\ Count(phrases[i]) > 3
                            /\ Len(phrases[i]) > 10 },
             1)

\* phrases.map(p => p.trim().toLowerCase())
Normalised(raw) == [i \in DOMAIN raw |-> ToLowerCase(Trim(raw[i]))]

RepeatedPhrases(text) == RepeatedAmong(Normalised(SplitPhrases(text)))

contradictoryPairs ==
    << <<"completed", "incomplete">>,
       <<"finished", "unfinished">>,
       <<"working", "broken">>,
       <<"implemented", "not implemented">>,
       <<"successful", "failed">> >>

\* The configured keywords the lower-case text holds, in configuration order.
KeywordHits(lowercaseText, keywords) ==
    Pick(keywords,
         { k \in DOMAIN keywords :
             Includes(lowercaseText, ToLowerCase(keywords[k])) }, 1)

\* The contradictory pairs the lower-case text holds both words of.
Contradictions(lowercaseText) ==
    Pick(contradictoryPairs,
         { k \in DOMAIN contradictoryPairs :
             /\ Includes(lowercaseText, contradictoryPairs[k][1])
             /\ Includes(lowercaseText, contradictoryPairs[k][2]) }, 1)

\* The list of pattern messages: keywords, then repeated phrases (their
\* first 50 characters), then contradictions.
PatternMessages(keywordHits, repeated, contradictions) ==
    [i \in DOMAIN keywordHits |-> <<"keyword", keywordHits[i]>>]
    \o [i \in DOMAIN repeated |->
           <<"repeated", SubSeq(repeated[i], 1, Min(50, Len(repeated[i])))>>]
    \o [i \in DOMAIN contradictions |-> <<"contradiction", contradictions[i]>>]

detectInconsistencies(text, cfg) ==
    PatternMessages(KeywordHits(ToLowerCase(text), cfg.suspiciousPatternKeywords),
                    RepeatedPhrases(text),
                    Contradictions(ToLowerCase(text)))

\* Math.round(x) for x = n / d, d > 0: the integer nearest to x, halves up.
Round(n, d) == (2 * n + d) \div (2 * d)

\* An adjuster that takes the two points away from a summary without
\* patterns instead of granting them.
HonestIncentiveSixths_BonusTaken(baseScore, evidenceScore, suspiciousPatterns, cfg) ==
    Max(0, Min(600,
        6 * baseScore
        + (IF evidenceScore >= cfg.evidenceThreshold
           THEN Min(30, evidenceScore - cfg.evidenceThreshold)
           ELSE 0 - Min(90, 2 * (cfg.evidenceThreshold - evidenceScore)))
        + (IF Len(suspiciousPatterns) > 0
           THEN 0 - 6 * Min(20, Len(suspiciousPatterns) * 4)
           ELSE 0 - 12)))

\* The score after the evidence bonus or penalty and the pattern penalty or
\* honesty bonus, in sixths of a point and clamped to 0..100, before it is
\* rounded.
HonestIncentiveSixths(baseScore, evidenceScore, suspiciousPatterns, cfg) ==
    Max(0, Min(600,
        6 * baseScore
        + (IF evidenceScore >= cfg.evidenceThreshold
           THEN Min(30, evidenceScore - cfg.evidenceThreshold)
           ELSE 0 - Min(90, 2 * (cfg.evidenceThreshold - evidenceScore)))
        + (IF Len(suspiciousPatterns) > 0
           THEN 0 - 6 * Min(20, Len(suspiciousPatterns) * 4)
           ELSE 12)))

applyHonestIncentives(baseScore, evidenceScore, suspiciousPatterns, cfg) ==
    [adjustedScore |->
        Round(HonestIncentiveSixths(baseScore, evidenceScore,
                                    suspiciousPatterns, cfg), 6),
     incentiveAnalysis |->
        << (IF evidenceScore >= cfg.evidenceThreshold
            THEN "evidence bonus" ELSE "evidence penalty"),
           (IF Len(suspiciousPatterns) > 0
            THEN "suspicious pattern penalty" ELSE "honesty bonus") >>]

\* A classification that calls the risk High only above three patterns.
ManipulationRisk_HighAboveThree(patternCount, evidenceScore, cfg) ==
    IF patternCount > 3 \/ evidenceScore < 50 THEN "HIGH"
    ELSE IF patternCount >= 1 \/ evidenceScore < cfg.evidenceThreshold THEN "MEDIUM"
    ELSE "LOW"

ManipulationRisk(patternCount, evidenceScore, cfg) ==
    IF patternCount >= 3 \/ evidenceScore < 50 THEN "HIGH"
    ELSE IF patternCount >= 1 \/ evidenceScore < cfg.evidenceThreshold THEN "MEDIUM"
    ELSE "LOW"

\* The AntiObfuscationResult built from the three analyses.
AntiObfuscationResultOf(evidenceValidation, suspiciousPatterns, incentiveResult, baseScore, cfg) ==
    [evidenceConsistency |-> evidenceValidation.score,
     manipulationRisk |->
        ManipulationRisk(Len(suspiciousPatterns), evidenceValidation.score, cfg),
     truthfulnessIndicators |->
        (IF evidenceValidation.score >= cfg.evidenceThreshold
         THEN << "evidence consistent" >> ELSE <<>>)
        \o (IF Len(suspiciousPatterns) = 0
            THEN << "no suspicious pattern" >> ELSE <<>>)
        \o (IF incentiveResult.adjustedScore >= baseScore
            THEN << "incentive score not lower" >> ELSE <<>>)
        \o incentiveResult.incentiveAnalysis,
     suspiciousPatterns |->
        suspiciousPatterns
        \o [i \in DOMAIN evidenceValidation.issues |->
               <<"issue", evidenceValidation.issues[i]>>]]

\* performAntiObfuscationValidation once the evidence is validated and the
\* patterns are detected.
ValidationOf(evidenceValidation, suspiciousPatterns, baseScore, cfg) ==
    AntiObfuscationResultOf(
        evidenceValidation, suspiciousPatterns,
        applyHonestIncentives(baseScore, evidenceValidation.score,
                              suspiciousPatterns, cfg),
        baseScore, cfg)

performAntiObfuscationValidation(task, summary, baseScore, cfg) ==
    ValidationOf(validateTaskEvidence(task, summary),
                 detectInconsistencies(summary, cfg), baseScore, cfg)

(***************************************************************************)
(* The task store (models/taskModel.ts)                                    *)
(* tasks.json is read whole at the start of every operation and written    *)
(* whole at its end; a property whose value is undefined is not written,   *)
(* so a stored task simply lacks it.  new Date() and Date.now() read the   *)
(* clock, which moves between operations.                                  *)
(***************************************************************************)

TaskStatus ==
    [PENDING |-> "pending", IN_PROGRESS |-> "in_progress",
     COMPLETED |-> "completed", BLOCKED |-> "blocked"]

\* tasks.findIndex(task => task.id === taskId), counting from 1; 0 when no
\* task has the id (the code's -1).
FindIndex(ts, taskId) ==
    IF \E i \in DOMAIN ts : ts[i].id = taskId
    THEN CHOOSE i \in DOMAIN ts :
            /\ ts[i].id = taskId
            /\ \A j \in DOMAIN ts : ts[j].id = taskId => i <= j
    ELSE 0

\* getTaskById(taskId) found a task.
Exists(ts, taskId) == FindIndex(ts, taskId) # 0

getTaskById(ts, taskId) == ts[FindIndex(ts, taskId)]

\* The fields of a completed task that updateTask may still write.
allowedFields_WithMetadata == {"summary", "relatedFiles", "completionMetadata"}

allowedFields == {"summary", "relatedFiles"}

\* updateTask returns null and writes nothing.
updateTaskRejects(ts, taskId, updates) ==
    \/ ~Exists(ts, taskId)
    \/ /\ getTaskById(ts, taskId).status = TaskStatus.COMPLETED
       /\ { field \in DOMAIN updates : field \notin allowedFields } # {}

\* The store after updateTask(taskId, updates), called at time now.
updateTask(ts, taskId, updates, now) ==
    IF updateTaskRejects(ts, taskId, updates) THEN ts
    ELSE [ts EXCEPT ![FindIndex(ts, taskId)] =
            Spread(Spread(@, updates), [updatedAt |-> now])]

StatusUpdates(status, now) ==
    IF status = TaskStatus.COMPLETED
    THEN [status |-> status, completedAt |-> now]
    ELSE [status |-> status]

updateTaskStatus(ts, taskId, status, now) ==
    updateTask(ts, taskId, StatusUpdates(status, now), now)

updateTaskSummary(ts, taskId, summary, now) ==
    updateTask(ts, taskId, [summary |-> summary], now)

updateTaskCompletionMetadata(ts, taskId, metadata, now) ==
    updateTask(ts, taskId, [completionMetadata |-> metadata], now)

DebateResultUpdates(summary, metadata, now) ==
    [status |-> TaskStatus.COMPLETED, summary |-> summary,
     completionMetadata |-> metadata, completedAt |-> now]

updateTaskWithDebateResults(ts, taskId, summary, metadata, now) ==
    updateTask(ts, taskId, DebateResultUpdates(summary, metadata, now), now)

\* updateTaskContent's updateObj: the fields the caller defined, with
\* dependencies turned into dependency objects.
ContentUpdateObj(updates) ==
    [field \in DOMAIN updates |->
        IF field = "dependencies"
        THEN [i \in DOMAIN updates.dependencies |->
                [taskId |-> updates.dependencies[i]]]
        ELSE updates[field]]

\* What updateTaskContent answers.
updateTaskContentReturn(ts, taskId, updates) ==
    IF ~Exists(ts, taskId)
    THEN [success |-> FALSE, message |-> "task not found"]
    ELSE IF getTaskById(ts, taskId).status = TaskStatus.COMPLETED
    THEN [success |-> FALSE, message |-> "cannot update a completed task"]
    ELSE IF DOMAIN ContentUpdateObj(updates) = {}
    THEN [success |-> TRUE, message |-> "nothing to update"]
    ELSE IF updateTaskRejects(ts, taskId, ContentUpdateObj(updates))
    THEN [success |-> FALSE, message |-> "error while updating"]
    ELSE [success |-> TRUE, message |-> "task content updated"]

updateTaskContent(ts, taskId, updates, now) ==
    IF /\ Exists(ts, taskId)
       /\ getTaskById(ts, taskId).status # TaskStatus.COMPLETED
       /\ DOMAIN ContentUpdateObj(updates) # {}
    THEN updateTask(ts, taskId, ContentUpdateObj(updates), now)
    ELSE ts

(***************************************************************************)
(* Episodic memory (models/taskModel.ts)                                   *)
(***************************************************************************)

\* a < b on two strings, as JavaScript compares them: by UTF-16 code units,
\* a proper prefix before the longer string.
JsStringLess(a, b) ==
    \E i \in 1..(Len(b)) :
        /\ \A j \in 1..(i - 1) : j <= Len(a) /\ a[j] = b[j]
        /\ \/ i > Len(a)
           \/ a[i] < b[i]

\* a >= b on two strings.
JsStringGeq(a, b) == ~JsStringLess(a, b)

\* object.field || fallback, for a string field.
OrElse(object, field, fallback) ==
    IF HasText(object, field) THEN object[field] ELSE fallback

episodeData(task, assessment) ==
    Spread(
        [taskId |-> task.id,
         taskName |-> task.name,
         complexityLevel |-> assessment.level,
         complexityScore |-> assessment.complexityScore,
         analysisResult |->
            OrElse(task, "analysisResult", "No analysis result available"),
         implementationGuide |->
            OrElse(task, "implementationGuide", "No implementation guide available"),
         verificationCriteria |->
            OrElse(task, "verificationCriteria",
                   "No verification criteria available"),
         dependencies |-> [i \in DOMAIN task.dependencies |->
                             task.dependencies[i].taskId],
         relatedFiles |->
            IF "relatedFiles" \in DOMAIN task THEN task.relatedFiles ELSE <<>>,
         status |-> task.status,
         createdAt |-> task.createdAt,
         systemRecommendation |-> assessment.systemRecommendation,
         routingJustification |-> assessment.routingJustification,
         temporalContext |-> assessment.temporalContextRequired,
         episodicMemoryRequired |-> assessment.episodicMemoryRequired],
        [field \in {"completedAt", "summary"} \cap DOMAIN task |-> task[field]])

\* storeEpisodicMemory skips the task: assessment.level < TaskComplexityLevel.HIGH.
SkipsEpisode(assessment) ==
    JsStringLess(assessment.level, TaskComplexityLevel.HIGH)

\* What storeEpisodicMemory(task, assessment) returns at time now.
storeEpisodicMemoryReturn(task, assessment, now) ==
    IF SkipsEpisode(assessment)
    THEN [success |-> TRUE, episodeId |-> "skipped_low_complexity",
          error |-> "Task complexity below threshold for episodic memory storage"]
    ELSE [success |-> TRUE,
          episodeId |-> "episode_" \o task.id \o "_" \o ToString(now)]

\* The episode files after storeEpisodicMemory(task, assessment):
\* storeEpisodicMemoryBackup writes episode_<task.id>.json.
storeEpisodicMemory(eps, task, assessment) ==
    IF SkipsEpisode(assessment) THEN eps
    ELSE Spread(eps, [id \in {task.id} |-> episodeData(task, assessment)])

\* createTask calls storeEpisodicMemory for this assessment.
RoutedToSystem2(assessment) ==
    \/ assessment.systemRecommendation = "SYSTEM_2"
    \/ assessment.mcpServerTarget = "graphiti"

\* The task createTask builds for its arguments at time now, with id the
\* identifier uuidv4() hands out.
NewTask(id, input, now) ==
    LET newTask ==
            Spread([id |-> id,
                    name |-> input.name,
                    description |-> input.description,
                    status |-> TaskStatus.PENDING,
                    dependencies |-> [i \in DOMAIN input.dependencies |->
                                        [taskId |-> input.dependencies[i]]],
                    createdAt |-> now,
                    updatedAt |-> now],
                   [field \in {"notes", "relatedFiles"} \cap DOMAIN input |->
                        input[field]])
    IN  Spread(newTask, [cognitiveRouting |-> assessTaskComplexity(newTask)])

(***************************************************************************)
(* verify_task (tools/routingMetrics.ts, from line 452)                    *)
(* Scores that need not be whole are kept in hundredths of a point.        *)
(* The arithmetic here is exact where the code computes in IEEE doubles:   *)
(* the two differ only where the exact value sits on a rounding tie (a     *)
(* score of 90 under HIGH risk: 90 * 0.7 is 62.99999999999999 as a double).*)
(* VerifyScores and the debate documents are chosen off those ties, so on  *)
(* every input submitted the value computed equals the double's.           *)
(***************************************************************************)

\* The score after the risk adjustment and the evidence bonus, in 1/6000 of
\* a point, before it is rounded; score100 is the score in hundredths.
AntiObfuscationAdjusted(score100, antiObfuscationResult) ==
    (IF antiObfuscationResult.manipulationRisk = "HIGH"
     THEN Min(42 * score100, 60 * score100 - 90000)
     ELSE IF antiObfuscationResult.manipulationRisk = "MEDIUM"
     THEN Min(51 * score100, 60 * score100 - 48000)
     ELSE Min(600000, 60 * score100 + 12000))
    + Max(-60000, Min(30000,
          1000 * (antiObfuscationResult.evidenceConsistency - 70)))

\* The adjusted score, a whole number of points in 0..100.
applyAntiObfuscationAdjustment(score100, antiObfuscationResult) ==
    Max(0, Min(100, Round(AntiObfuscationAdjusted(score100, antiObfuscationResult),
                          6000)))

\* debateParams asks for the debate protocol and carries both scores.
DebateApplies(debateParams) ==
    /\ "enableDebateProtocol" \in DOMAIN debateParams
    /\ debateParams.enableDebateProtocol
    /\ {"proverScore", "estimatorScore"} \subseteq DOMAIN debateParams

\* debateParams.field, or the empty list when the caller left it out.
ListOf(debateParams, field) ==
    IF field \in DOMAIN debateParams THEN debateParams[field] ELSE <<>>

IntensityKey(debateIntensity) ==
    IF debateIntensity = "LIGHT" THEN "light"
    ELSE IF debateIntensity = "RIGOROUS" THEN "rigorous"
    ELSE "moderate"

\* NaN, which no arithmetic on scores yields otherwise: every score is
\* clamped to 0 or more.  Every comparison of a score with a threshold is
\* false on it, as it is on NaN.
NaN == -1

\* The weighted blend is NaN: a weight of the profile is undefined.
BlendIsNaN(weights) == WeightSumIsNaN(weights)

\* A blend that charges the discrepancy penalty from the limit on.
HonestEquilibrium_PenaltyAtLimit(cfg, baseScore, debateParams) ==
    LET intensityConfig ==
            cfg.intensitySettings[IntensityKey(debateParams.debateIntensity)]
        weights == intensityConfig.weights
        incentives == intensityConfig.incentives
        scoreDiff == Abs(debateParams.proverScore - debateParams.estimatorScore)
    IN  IF BlendIsNaN(weights) THEN NaN
        ELSE Max(0, Min(10000,
            debateParams.proverScore * weights.prover
            + debateParams.estimatorScore * weights.estimator
            + baseScore * weights.synthesis
            + Len(ListOf(debateParams, "consensusPoints")) * incentives.consensusBonus
            - Len(ListOf(debateParams, "conflicts")) * incentives.conflictPenalty
            - (IF scoreDiff >= incentives.maxScoreDiscrepancy
               THEN incentives.scoreDiscrepancyPenalty ELSE 0)))

\* The weighted blend with its bonuses and penalties, clamped to 0..100, in
\* hundredths of a point; Math.max(0, Math.min(100, NaN)) is NaN.
HonestEquilibrium(cfg, baseScore, debateParams) ==
    LET intensityConfig ==
            cfg.intensitySettings[IntensityKey(debateParams.debateIntensity)]
        weights == intensityConfig.weights
        incentives == intensityConfig.incentives
        scoreDiff == Abs(debateParams.proverScore - debateParams.estimatorScore)
    IN  IF BlendIsNaN(weights) THEN NaN
        ELSE Max(0, Min(10000,
            debateParams.proverScore * weights.prover
            + debateParams.estimatorScore * weights.estimator
            + baseScore * weights.synthesis
            + Len(ListOf(debateParams, "consensusPoints")) * incentives.consensusBonus
            - Len(ListOf(debateParams, "conflicts")) * incentives.conflictPenalty
            - (IF scoreDiff > incentives.maxScoreDiscrepancy
               THEN incentives.scoreDiscrepancyPenalty ELSE 0)))

AntiObfuscationConfigOf(cfg) ==
    [evidenceThreshold |-> cfg.antiObfuscation.evidenceThreshold,
     manipulationDetectionSensitivity |-> cfg.antiObfuscation.manipulationSensitivity,
     maxScoreDifference |-> 25,
     suspiciousPatternKeywords |-> cfg.antiObfuscation.suspiciousPatternKeywords,
     truthfulnessWeights |-> cfg.antiObfuscation.truthfulnessWeights]

\* debateBreakdown.honestEquilibriumScore, in hundredths of a point; every
\* step of applyAntiObfuscationAdjustment keeps NaN.
HonestEquilibriumScore(cfg, baseScore, debateParams, antiObfuscationResult) ==
    IF HonestEquilibrium(cfg, baseScore, debateParams) = NaN THEN NaN
    ELSE IF debateParams.antiObfuscationEnabled
    THEN 100 * applyAntiObfuscationAdjustment(
                   HonestEquilibrium(cfg, baseScore, debateParams),
                   antiObfuscationResult)
    ELSE HonestEquilibrium(cfg, baseScore, debateParams)

\* What calculateDebateScore returns when the debate applies.
DebateScoreOf(debateParams, honestEquilibriumScore, antiObfuscationResult) ==
    [finalScore |-> IF honestEquilibriumScore = NaN THEN NaN
                    ELSE Round(honestEquilibriumScore, 100),
     debateBreakdown |->
        [proverScore |-> debateParams.proverScore,
         estimatorScore |-> debateParams.estimatorScore,
         consensusPoints |-> ListOf(debateParams, "consensusPoints"),
         conflicts |-> ListOf(debateParams, "conflicts"),
         resolutionJustification |->
            IF "resolutionJustification" \in DOMAIN debateParams
            THEN debateParams.resolutionJustification ELSE "",
         honestEquilibriumScore |-> honestEquilibriumScore],
     antiObfuscationResult |-> antiObfuscationResult]

\* debateParams?.enableDebateProtocol is truthy.
DebateEnabled(debateParams) ==
    /\ "enableDebateProtocol" \in DOMAIN debateParams
    /\ debateParams.enableDebateProtocol

\* What calculateDebateScore returns outside the debate: the base score
\* after the anti-obfuscation adjustment, and no debateBreakdown.
AdjustedOnly(baseScore, antiObfuscationResult) ==
    [finalScore |->
        applyAntiObfuscationAdjustment(100 * baseScore, antiObfuscationResult),
     antiObfuscationResult |-> antiObfuscationResult]

\* A fallback that returns the base score as it came.
IncompleteDebateScore_Unadjusted(baseScore, antiObfuscationResult) ==
    [finalScore |-> baseScore, antiObfuscationResult |-> antiObfuscationResult]

\* The return for an enabled debate that lacks proverScore or estimatorScore.
IncompleteDebateScore(baseScore, antiObfuscationResult) ==
    AdjustedOnly(baseScore, antiObfuscationResult)

\* calculateDebateScore once performAntiObfuscationValidation has returned
\* antiObfuscationResult.
ScoreWith(cfg, baseScore, debateParams, antiObfuscationResult) ==
    IF ~DebateEnabled(debateParams)
    THEN AdjustedOnly(baseScore, antiObfuscationResult)
    ELSE IF DebateApplies(debateParams)
    THEN DebateScoreOf(debateParams,
                       HonestEquilibriumScore(cfg, baseScore, debateParams,
                                              antiObfuscationResult),
                       antiObfuscationResult)
    ELSE IncompleteDebateScore(baseScore, antiObfuscationResult)

calculateDebateScore(cfg, task, summary, baseScore, debateParams) ==
    ScoreWith(cfg, baseScore, debateParams,
              performAntiObfuscationValidation(task, summary, baseScore,
                                               AntiObfuscationConfigOf(cfg)))

calculateCompletionConfidence(finalScore, debateResult) ==
    LET debate == OrEmpty(debateResult, "debateBreakdown")
        scoreDifference == Abs(debate.proverScore - debate.estimatorScore)
        risk == debateResult.antiObfuscationResult.manipulationRisk
        evidence == debateResult.antiObfuscationResult.evidenceConsistency
        confidenceScore ==
            finalScore
            + (IF DOMAIN debate = {} THEN 0
               ELSE IF /\ scoreDifference < 15
                       /\ Len(debate.consensusPoints) > Len(debate.conflicts)
               THEN 5
               ELSE IF \/ scoreDifference > 30
                       \/ Len(debate.conflicts) > Len(debate.consensusPoints)
               THEN -10
               ELSE 0)
            + (IF risk = "LOW" /\ evidence > 80 THEN 3
               ELSE IF risk = "HIGH" \/ evidence < 50 THEN -15
               ELSE 0)
    IN  IF confidenceScore >= 90 THEN "HIGH"
        ELSE IF confidenceScore >= 75 THEN "MEDIUM"
        ELSE "LOW"

\* recommendations.slice(0, 5); each recommendation is named by what it is
\* about rather than spelled out.
generateCompletionRecommendations(task, debateResult, finalScore) ==
    LET debate == OrEmpty(debateResult, "debateBreakdown")
        antiObf == debateResult.antiObfuscationResult
        recommendations ==
            (IF finalScore >= 95 THEN << "excellent" >>
             ELSE IF finalScore >= 85 THEN << "good" >>
             ELSE IF finalScore >= 80 THEN << "basic" >>
             ELSE <<>>)
            \o (IF DOMAIN debate # {} /\ Len(debate.consensusPoints) > 0
                THEN << <<"consensus", SubSeq(debate.consensusPoints, 1,
                                              Min(2, Len(debate.consensusPoints)))>> >>
                ELSE <<>>)
            \o (IF DOMAIN debate # {} /\ Len(debate.conflicts) > 0
                THEN << <<"conflicts", SubSeq(debate.conflicts, 1,
                                              Min(2, Len(debate.conflicts)))>> >>
                ELSE <<>>)
            \o (IF /\ DOMAIN debate # {}
                   /\ Abs(debate.proverScore - debate.estimatorScore) > 20
                THEN << "debaters far apart" >> ELSE <<>>)
            \o (IF antiObf.manipulationRisk = "LOW" /\ antiObf.evidenceConsistency > 85
                THEN << "evidence excellent" >>
                ELSE IF antiObf.manipulationRisk = "MEDIUM"
                THEN << "record more evidence" >>
                ELSE IF antiObf.manipulationRisk = "HIGH"
                THEN << "review the implementation" >>
                ELSE <<>>)
            \o (IF Len(antiObf.truthfulnessIndicators) > 2
                THEN << "good honesty indicators" >> ELSE <<>>)
            \o (IF Len(task.dependencies) > 0
                THEN << "dependencies coordinated" >> ELSE <<>>)
            \o (IF "relatedFiles" \in DOMAIN task /\ Len(task.relatedFiles) > 3
                THEN << "many files" >> ELSE <<>>)
    IN  SubSeq(recommendations, 1, Min(5, Len(recommendations)))

\* summary with the debate and anti-obfuscation reports appended.
enhancedSummary(summary, debateResult) ==
    Spread([summary |-> summary,
            antiObfuscation |->
                [field \in {"evidenceConsistency", "manipulationRisk",
                            "truthfulnessIndicators", "suspiciousPatterns"} |->
                    debateResult.antiObfuscationResult[field]]],
           [field \in {"debateBreakdown"} \cap DOMAIN debateResult |->
                debateResult[field]])

completionMetadata(task, score, debateResult, now) ==
    Spread(
        [completionTimestamp |-> now,
         verificationMethod |->
            IF "debateBreakdown" \in DOMAIN debateResult
            THEN "DEBATE_PROTOCOL" ELSE "STANDARD",
         finalScore |-> debateResult.finalScore,
         originalScore |-> score,
         antiObfuscationAnalysis |->
            [field \in {"evidenceConsistency", "manipulationRisk",
                        "suspiciousPatterns", "truthfulnessIndicators"} |->
                debateResult.antiObfuscationResult[field]],
         completionConfidence |->
            calculateCompletionConfidence(debateResult.finalScore, debateResult),
         recommendations |->
            generateCompletionRecommendations(task, debateResult,
                                              debateResult.finalScore)],
        IF "debateBreakdown" \in DOMAIN debateResult
        THEN [debateAnalysis |->
                [f \in {"proverScore", "estimatorScore", "consensusPoints",
                        "conflicts", "honestEquilibriumScore"} |->
                    debateResult.debateBreakdown[f]]]
        ELSE EmptyObj)

\* verifyTask writes the completion: the final score reaches 80.
VerifyCompletes(finalScore) == finalScore >= 80

\* The store after verifyTask on an in-progress task whose score
\* calculateDebateScore worked out as debateResult.
verifyTaskStore(ts, taskId, summary, score, debateResult, now) ==
    IF VerifyCompletes(debateResult.finalScore)
    THEN updateTaskStatus(
             updateTaskWithDebateResults(
                 ts, taskId, enhancedSummary(summary, debateResult),
                 completionMetadata(getTaskById(ts, taskId), score, debateResult,
                                    now),
                 now),
             taskId, TaskStatus.COMPLETED, now)
    ELSE ts

(***************************************************************************)
(* The router on its own: a pure function of the task it is handed.        *)
(***************************************************************************)

\* The largest number of dependencies of a task handed to the router.
MaxDeps == 5

\* dependencies: [{taskId}, ...] naming n other tasks.
DependencyObjects(n) == [i \in 1..n |-> [taskId |-> i]]

\* Tasks as the router reads them: description, dependencies and, when the
\* task has any, notes.
RouterTasks ==
    { [description |-> d, dependencies |-> DependencyObjects(n)] :
        d \in DescriptionTexts, n \in 0..MaxDeps }
    \cup { [description |-> d, dependencies |-> DependencyObjects(n), notes |-> t] :
        d \in DescriptionTexts, n \in 0..MaxDeps, t \in NotesTexts }

NoAssessment == [returned |-> FALSE]

RouterIdle ==
    /\ rtTask = EmptyObj
    /\ rtOut = NoAssessment

RouterInit ==
    /\ LoaderInit
    /\ ScoreIdle
    /\ AuxIdle
    /\ StoreIdle
    /\ rtTask \in RouterTasks
    /\ rtOut = NoAssessment

Assess ==
    /\ ~rtOut.returned
    /\ rtOut' = [returned |-> TRUE, assessment |-> assessTaskComplexity(rtTask)]
    /\ UNCHANGED <<rtTask, config, ret, storeVars, scoreVars, auxVars>>

RouterNext == Assess

SpecRouter == RouterInit /\ [][RouterNext]_vars

(***************************************************************************)
(* The configuration loader on its own                                     *)
(***************************************************************************)

ConfigInit ==
    /\ LoaderInit
    /\ ScoreIdle
    /\ AuxIdle
    /\ RouterIdle
    /\ StoreIdle

ConfigNext ==
    \/ \E updates \in UpdateDocs : updateConfig(updates)
    \/ resetToDefault

SpecConfig == ConfigInit /\ [][ConfigNext]_vars

(***************************************************************************)
(* A reader of the configuration between updates                           *)
(***************************************************************************)

\* updateConfig(updates): accepted and rejected documents.
SnapshotDocs ==
    { [scoring |-> [completionThreshold |-> c]] : c \in {60, 150} }
    \cup { [antiObfuscation |-> [evidenceThreshold |-> 50]],
           [performance |-> [maxProcessingTimeMs |-> 0]],
           [performance |-> [maxRecommendations |-> 3],
            scoring |-> [confidenceThresholds |->
                            [low |-> 60, medium |-> 70, high |-> 90]]] }

SnapshotNext ==
    \/ GetConfig
    \/ \E updates \in SnapshotDocs : updateConfig(updates)
    \/ resetToDefault

SpecSnapshot == ConfigInit /\ [][SnapshotNext]_vars

(***************************************************************************)
(* The operations on the task store, as steps                              *)
(***************************************************************************)

\* Time passes.
MaxClock == 1

Tick ==
    /\ clock < MaxClock
    /\ clock' = clock + 1
    /\ UNCHANGED <<config, ret, routerVars, scoreVars, auxVars, tasks, episodes, idPool>>

\* What an operation built on updateTask returns: the task, or null.
UpdateReturn(op, taskId, updates) ==
    [op |-> op, taskId |-> taskId,
     isNull |-> updateTaskRejects(tasks, taskId, updates)]

CreateTask(input) ==
    /\ idPool # <<>>
    /\ \E newTask \in { NewTask(Head(idPool), input, clock) } :
          /\ tasks' = Append(tasks, newTask)
          /\ episodes' =
                IF RoutedToSystem2(newTask.cognitiveRouting)
                THEN storeEpisodicMemory(episodes, newTask, newTask.cognitiveRouting)
                ELSE episodes
          /\ ret' = [op |-> "createTask", taskId |-> newTask.id]
    /\ idPool' = Tail(idPool)
    /\ UNCHANGED <<config, routerVars, scoreVars, auxVars, clock>>

UpdateTask(taskId, updates) ==
    /\ tasks' = updateTask(tasks, taskId, updates, clock)
    /\ ret' = UpdateReturn("updateTask", taskId, updates)
    /\ UNCHANGED <<config, routerVars, scoreVars, auxVars, episodes, idPool, clock>>

UpdateTaskStatus(taskId, status) ==
    /\ tasks' = updateTaskStatus(tasks, taskId, status, clock)
    /\ ret' = UpdateReturn("updateTaskStatus", taskId, StatusUpdates(status, clock))
    /\ UNCHANGED <<config, routerVars, scoreVars, auxVars, episodes, idPool, clock>>

UpdateTaskSummary(taskId, summary) ==
    /\ tasks' = updateTaskSummary(tasks, taskId, summary, clock)
    /\ ret' = UpdateReturn("updateTaskSummary", taskId, [summary |-> summary])
    /\ UNCHANGED <<config, routerVars, scoreVars, auxVars, episodes, idPool, clock>>

UpdateTaskCompletionMetadata(taskId, metadata) ==
    /\ tasks' = updateTaskCompletionMetadata(tasks, taskId, metadata, clock)
    /\ ret' = UpdateReturn("updateTaskCompletionMetadata", taskId,
                           [completionMetadata |-> metadata])
    /\ UNCHANGED <<config, routerVars, scoreVars, auxVars, episodes, idPool, clock>>

UpdateTaskWithDebateResults(taskId, summary, metadata) ==
    /\ tasks' = updateTaskWithDebateResults(tasks, taskId, summary, metadata, clock)
    /\ ret' = UpdateReturn("updateTaskWithDebateResults", taskId,
                           DebateResultUpdates(summary, metadata, clock))
    /\ UNCHANGED <<config, routerVars, scoreVars, auxVars, episodes, idPool, clock>>

UpdateTaskContent(taskId, updates) ==
    /\ tasks' = updateTaskContent(tasks, taskId, updates, clock)
    /\ ret' = Spread([op |-> "updateTaskContent", taskId |-> taskId],
                     updateTaskContentReturn(tasks, taskId, updates))
    /\ UNCHANGED <<config, routerVars, scoreVars, auxVars, episodes, idPool, clock>>

\* storeEpisodicMemory(task, assessment), called on a stored task with the
\* assessment the task carries.
StoreEpisodicMemory(taskId) ==
    /\ Exists(tasks, taskId)
    /\ LET task == getTaskById(tasks, taskId)
       IN  /\ episodes' = storeEpisodicMemory(episodes, task, task.cognitiveRouting)
           /\ ret' = Spread([op |-> "storeEpisodicMemory", taskId |-> taskId],
                            storeEpisodicMemoryReturn(task, task.cognitiveRouting,
                                                      clock))
    /\ UNCHANGED <<config, routerVars, scoreVars, auxVars, tasks, idPool, clock>>

\* What verifyTask answers for a task in progress.
verifyTaskReturn(taskId, score, debateResult) ==
    [op |-> "verifyTask", taskId |-> taskId, isError |-> FALSE, score |-> score,
     finalScore |-> debateResult.finalScore]

VerifyTask(taskId, summary, score, debateParams) ==
    /\ IF ~Exists(tasks, taskId)
       THEN /\ ret' = [op |-> "verifyTask", taskId |-> taskId, isError |-> TRUE,
                       error |-> "task not found"]
            /\ tasks' = tasks
       ELSE IF getTaskById(tasks, taskId).status # TaskStatus.IN_PROGRESS
       THEN /\ ret' = [op |-> "verifyTask", taskId |-> taskId, isError |-> TRUE,
                       error |-> "task not in progress"]
            /\ tasks' = tasks
       ELSE \E debateResult \in
                { calculateDebateScore(config, getTaskById(tasks, taskId),
                                       summary, score, debateParams) } :
                /\ ret' = verifyTaskReturn(taskId, score, debateResult)
                /\ tasks' = verifyTaskStore(tasks, taskId, summary, score,
                                            debateResult, clock)
    /\ UNCHANGED <<config, routerVars, scoreVars, auxVars, episodes, idPool, clock>>

(***************************************************************************)
(* The task store                                                          *)
(***************************************************************************)

\* The identifiers uuidv4() hands out, in order.
TaskIds == <<"task-1", "task-2">>

IdSet == { TaskIds[i] : i \in DOMAIN TaskIds }

\* createTask(name, description, notes, dependencies, relatedFiles).
StoreCreateInputs ==
    { [name |-> "Test Task", description |-> T_mockDescription,
       dependencies |-> <<>>] }

\* updateTaskContent(taskId, updates).
StoreContentDocs ==
    { [description |-> T_plainDescription, dependencies |-> <<"task-2">>],
      EmptyObj }

RelatedFiles == << [path |-> "src/models/taskModel.ts", type |-> "TO_MODIFY"] >>

\* A completion record a caller of the store hands in.
CallerMetadata ==
    [completionTimestamp |-> 0, verificationMethod |-> "STANDARD",
     finalScore |-> 90, originalScore |-> 90,
     completionConfidence |-> "HIGH", recommendations |-> <<>>]

\* updateTask(taskId, updates).
StoreUpdateDocs ==
    { [summary |-> T_partialSummary],
      [relatedFiles |-> RelatedFiles],
      [summary |-> T_partialSummary, status |-> TaskStatus.PENDING],
      [completionMetadata |-> CallerMetadata, relatedFiles |-> RelatedFiles] }

StoreStatuses ==
    {TaskStatus.PENDING, TaskStatus.IN_PROGRESS, TaskStatus.COMPLETED}

Init ==
    /\ LoaderInit
    /\ ScoreIdle
    /\ AuxIdle
    /\ RouterIdle
    /\ tasks = <<>>
    /\ episodes = EmptyObj
    /\ idPool = <<TaskIds[1]>>
    /\ clock = 0

Next ==
    \/ \E input \in StoreCreateInputs : CreateTask(input)
    \/ \E taskId \in IdSet, updates \in StoreUpdateDocs : UpdateTask(taskId, updates)
    \/ \E taskId \in IdSet, status \in StoreStatuses : UpdateTaskStatus(taskId, status)
    \/ \E taskId \in IdSet : UpdateTaskSummary(taskId, T_partialSummary)
    \/ \E taskId \in IdSet : UpdateTaskCompletionMetadata(taskId, CallerMetadata)
    \/ \E taskId \in IdSet :
          UpdateTaskWithDebateResults(taskId, T_qualitySummary, CallerMetadata)
    \/ \E taskId \in IdSet, updates \in StoreContentDocs :
          UpdateTaskContent(taskId, updates)
    \/ \E taskId \in IdSet : VerifyTask(taskId, T_faithfulSummary, 85, EmptyObj)
    \/ Tick

Spec == Init /\ [][Next]_vars

(***************************************************************************)
(* verify_task under a configuration that changes                          *)
(***************************************************************************)

\* The tasks handed to verify_task: the mock task of the repository's
\* tests, bare and with an implementation guide and verification criteria.
VerifyCreateInputs ==
    { [name |-> "Test Task", description |-> T_mockDescription,
       dependencies |-> <<>>] }

VerifyContentDocs ==
    { [implementationGuide |-> T_mockGuide, verificationCriteria |-> T_mockCriteria] }

\* verifyTask's arguments: summary, score and debateParams.
VerifySummaries == {T_faithfulSummary, T_testingSummary, T_fakeSummary}

VerifyScores == {79, 80, 85, 95}

DebateParamDocs ==
    { EmptyObj,
      [enableDebateProtocol |-> TRUE, debateIntensity |-> "MODERATE",
       antiObfuscationEnabled |-> TRUE, proverScore |-> 90, estimatorScore |-> 80,
       consensusPoints |-> <<"tests pass", "matches the guide">>],
      [enableDebateProtocol |-> TRUE, debateIntensity |-> "RIGOROUS",
       antiObfuscationEnabled |-> FALSE, proverScore |-> 95, estimatorScore |-> 60,
       conflicts |-> <<"coverage">>] }

\* updateConfig(updates) while tasks are verified.
VerifyConfigDocs ==
    { [scoring |-> [completionThreshold |-> 60]],
      [scoring |-> [completionThreshold |-> 90]] }

VerifyInit == Init

VerifyNext ==
    \/ \E input \in VerifyCreateInputs : CreateTask(input)
    \/ \E taskId \in IdSet, updates \in VerifyContentDocs :
          UpdateTaskContent(taskId, updates)
    \/ \E taskId \in IdSet : UpdateTaskStatus(taskId, TaskStatus.IN_PROGRESS)
    \/ \E taskId \in IdSet, summary \in VerifySummaries, score \in VerifyScores,
          debateParams \in DebateParamDocs :
          VerifyTask(taskId, summary, score, debateParams)
    \/ \E updates \in VerifyConfigDocs : updateConfig(updates)
    \/ resetToDefault
    \/ Tick

SpecVerify == VerifyInit /\ [][VerifyNext]_vars

(***************************************************************************)
(* createTask and the episodic memory                                      *)
(***************************************************************************)

DependencyIds(n) == [i \in 1..n |-> "dependency-" \o ToString(i)]

\* createTask arguments, one for each complexity level the router assigns:
\* LOW (15), MEDIUM (35), HIGH (55) and VERY_HIGH (80).
EpisodicCreateInputs ==
    { [name |-> "Simple Test Task", description |-> T_simpleDescription,
       dependencies |-> <<>>],
      [name |-> "Medium Test Task", description |-> plain500,
       dependencies |-> <<>>],
      [name |-> "Complex Test Task", description |-> keywords1000,
       dependencies |-> <<>>],
      [name |-> "Enterprise Test Task", description |-> keywords1000,
       dependencies |-> DependencyIds(dependencyThresholdHigh)] }

EpisodicInit ==
    /\ LoaderInit
    /\ ScoreIdle
    /\ AuxIdle
    /\ RouterIdle
    /\ tasks = <<>>
    /\ episodes = EmptyObj
    /\ idPool = TaskIds
    /\ clock = 0

EpisodicNext ==
    \/ \E input \in EpisodicCreateInputs : CreateTask(input)
    \/ \E taskId \in IdSet : StoreEpisodicMemory(taskId)
    \/ \E taskId \in IdSet : UpdateTaskStatus(taskId, TaskStatus.IN_PROGRESS)
    \/ Tick

SpecEpisodic == EpisodicInit /\ [][EpisodicNext]_vars

(***************************************************************************)
(* The scoring functions, called on their own                              *)
(* validateTaskEvidence, detectInconsistencies, applyHonestIncentives and  *)
(* performAntiObfuscationValidation (utils/antiObfuscation.ts) are         *)
(* exported and called directly by the tests; calculateDebateScore         *)
(* (tools/routingMetrics.ts) is what verifyTask calls.  scIn holds the     *)
(* arguments of one call, scOut what it returned.  The configuration is    *)
(* the loader's, which updateConfig may have changed before the call.      *)
(***************************************************************************)

\* The description and criteria of the tests' unrelated-evidence task.
T_authDescription == "Implement user authentication system"

T_authCriteria == "Authentication system should be secure"

\* The tests' mock task as createMockTask() builds it, the same task without
\* its optional fields, and the task of the unrelated-evidence test.
ScoreTasks ==
    { [description |-> T_mockDescription, dependencies |-> <<>>,
       implementationGuide |-> T_mockGuide,
       verificationCriteria |-> T_mockCriteria],
      [description |-> T_mockDescription, dependencies |-> <<>>],
      [description |-> T_authDescription, dependencies |-> <<>>,
       implementationGuide |-> T_mockGuide,
       verificationCriteria |-> T_authCriteria] }

\* summary with keyword added as one more word.
AddKeyword(summary, keyword) ==
    IF summary = "" THEN keyword ELSE summary \o " " \o keyword

ScoreBaseSummaries ==
    { "", T_guidelinesSummary, T_faithfulSummary, T_fakeSummary,
      T_unrelatedSummary, T_qualitySummary, T_partialSummary,
      T_scenarioCSummary, T_repeatedSummary, T_testingSummary }

\* The summaries, and each with one configured keyword added.
ScoreSummaries ==
    ScoreBaseSummaries
    \cup { AddKeyword(s, k) : s \in ScoreBaseSummaries, k \in {"mock", "broken"} }

ScoreBaseScores == {0, 80, 100}

\* The evidence scores handed to applyHonestIncentives: on both sides of 50
\* and of both evidence thresholds in use, and at the ends of the scale.
EvidenceScores == {0, 49, 50, 55, 69, 70, 73, 100}

\* The longest list of suspicious patterns handed to applyHonestIncentives.
MaxPatterns == 5

PatternList(n) == [i \in 1..n |-> "pattern"]

\* The most consensus points, and the most conflicts, of a debate.
MaxPoints == 2

PointList(n) == [i \in 1..n |-> "point"]

\* Complete debates: every profile, scores at the ends and in the middle of
\* the scale, with and without the anti-obfuscation adjustment.
CompleteDebateDocs ==
    { [enableDebateProtocol |-> TRUE, debateIntensity |-> intensity,
       antiObfuscationEnabled |-> enabled,
       proverScore |-> proverScore, estimatorScore |-> estimatorScore,
       consensusPoints |-> PointList(consensus),
       conflicts |-> PointList(conflicts)] :
        intensity \in {"LIGHT", "MODERATE", "RIGOROUS"}, enabled \in BOOLEAN,
        proverScore \in {0, 100}, estimatorScore \in {0, 50, 100},
        consensus \in 0..MaxPoints, conflicts \in 0..MaxPoints }

\* Debates whose scores differ by exactly the profile's maxScoreDiscrepancy.
BoundaryDebateDocs ==
    { [enableDebateProtocol |-> TRUE, debateIntensity |-> "LIGHT",
       antiObfuscationEnabled |-> FALSE, proverScore |-> 95,
       estimatorScore |-> 60],
      [enableDebateProtocol |-> TRUE, debateIntensity |-> "RIGOROUS",
       antiObfuscationEnabled |-> FALSE, proverScore |-> 60,
       estimatorScore |-> 80, consensusPoints |-> <<"tests pass">>] }

\* Debates that are enabled but lack proverScore, estimatorScore or both.
IncompleteDebateDocs ==
    { [enableDebateProtocol |-> TRUE, debateIntensity |-> "MODERATE",
       antiObfuscationEnabled |-> TRUE, proverScore |-> 90],
      [enableDebateProtocol |-> TRUE, debateIntensity |-> "RIGOROUS",
       antiObfuscationEnabled |-> FALSE, estimatorScore |-> 80,
       consensusPoints |-> <<"tests pass">>],
      [enableDebateProtocol |-> TRUE, debateIntensity |-> "LIGHT",
       antiObfuscationEnabled |-> TRUE] }

\* No debateParams, and a debate that is switched off.
NoDebateDocs ==
    { EmptyObj,
      [enableDebateProtocol |-> FALSE, debateIntensity |-> "MODERATE",
       antiObfuscationEnabled |-> TRUE, proverScore |-> 90,
       estimatorScore |-> 80] }

\* One call of one scoring function with its arguments.
ScoreCalls ==
    { [fn |-> "validateTaskEvidence", task |-> task, summary |-> summary] :
        task \in ScoreTasks, summary \in ScoreSummaries }
    \cup { [fn |-> "detectInconsistencies", text |-> text] :
             text \in ScoreSummaries }
    \cup { [fn |-> "applyHonestIncentives", baseScore |-> baseScore,
            evidenceScore |-> evidenceScore,
            suspiciousPatterns |-> PatternList(n)] :
             baseScore \in 0..100, evidenceScore \in EvidenceScores,
             n \in 0..MaxPatterns }
    \cup { [fn |-> "performAntiObfuscationValidation", task |-> task,
            summary |-> summary, baseScore |-> baseScore] :
             task \in ScoreTasks, summary \in ScoreSummaries,
             baseScore \in ScoreBaseScores }
    \cup { [fn |-> "calculateDebateScore", task |-> task, summary |-> summary,
            baseScore |-> baseScore, debateParams |-> debateParams] :
             task \in ScoreTasks, summary \in ScoreSummaries,
             baseScore \in ScoreBaseScores,
             debateParams \in NoDebateDocs \cup IncompleteDebateDocs
                              \cup DebateParamDocs }
    \cup { [fn |-> "calculateDebateScore", task |-> task, summary |-> summary,
            baseScore |-> baseScore, debateParams |-> debateParams] :
             task \in { t \in ScoreTasks : t.description = T_authDescription },
             summary \in {T_faithfulSummary, T_fakeSummary},
             baseScore \in {0, 100},
             debateParams \in CompleteDebateDocs \cup BoundaryDebateDocs }

\* updateConfig(updates) before a scoring call: another evidence threshold,
\* and the light profile with its weights replaced by a single weight.
ScoreConfigDocs ==
    { [antiObfuscation |-> [evidenceThreshold |-> 50],
       intensitySettings |->
          [light |-> Spread(DefaultLight, [weights |-> [prover |-> 50]])]] }

ScoreInit ==
    /\ LoaderInit
    /\ AuxIdle
    /\ RouterIdle
    /\ StoreIdle
    /\ scIn \in ScoreCalls
    /\ scOut = [returned |-> FALSE]

\* The call scIn returns value.
ScoreReturns(fn, value) ==
    /\ scIn.fn = fn
    /\ ~scOut.returned
    /\ scOut' = [returned |-> TRUE, value |-> value]
    /\ UNCHANGED <<scIn, config, ret, routerVars, storeVars, auxVars>>

ValidateTaskEvidence ==
    /\ scIn.fn = "validateTaskEvidence"
    /\ ScoreReturns("validateTaskEvidence",
                    validateTaskEvidence(scIn.task, scIn.summary))

DetectInconsistencies ==
    /\ scIn.fn = "detectInconsistencies"
    /\ ScoreReturns("detectInconsistencies",
                    detectInconsistencies(scIn.text, AntiObfuscationConfigOf(config)))

ApplyHonestIncentives ==
    /\ scIn.fn = "applyHonestIncentives"
    /\ ScoreReturns("applyHonestIncentives",
                    applyHonestIncentives(scIn.baseScore, scIn.evidenceScore,
                                          scIn.suspiciousPatterns,
                                          AntiObfuscationConfigOf(config)))

PerformAntiObfuscationValidation ==
    /\ scIn.fn = "performAntiObfuscationValidation"
    /\ ScoreReturns("performAntiObfuscationValidation",
                    performAntiObfuscationValidation(
                        scIn.task, scIn.summary, scIn.baseScore,
                        AntiObfuscationConfigOf(config)))

CalculateDebateScore ==
    /\ scIn.fn = "calculateDebateScore"
    /\ ScoreReturns("calculateDebateScore",
                    calculateDebateScore(config, scIn.task, scIn.summary,
                                         scIn.baseScore, scIn.debateParams))

\* The configuration is changed before the call is made.
ScoreUpdateConfig ==
    /\ ~scOut.returned
    /\ \E updates \in ScoreConfigDocs : updateConfig(updates)

ScoreNext ==
    \/ ValidateTaskEvidence
    \/ DetectInconsistencies
    \/ ApplyHonestIncentives
    \/ PerformAntiObfuscationValidation
    \/ CalculateDebateScore
    \/ ScoreUpdateConfig

SpecScore == ScoreInit /\ [][ScoreNext]_vars

(***************************************************************************)
(* reassessCognitiveRouting (models/taskModel.ts)                          *)
(***************************************************************************)

\* tasksToReassess: the tasks getTaskById finds for the ids given, in the
\* order given, or getAllTasks() when no id is given.
tasksToReassess(ts, taskIds) ==
    IF Len(taskIds) > 0
    THEN [i \in 1..Cardinality({ j \in DOMAIN taskIds : Exists(ts, taskIds[j]) }) |->
            getTaskById(ts, taskIds[
                CHOOSE j \in DOMAIN taskIds :
                    /\ Exists(ts, taskIds[j])
                    /\ Cardinality({ k \in 1..j : Exists(ts, taskIds[k]) }) = i])]
    ELSE ts

\* The errors pushed for the ids getTaskById does not find.
NotFoundErrors(ts, taskIds) ==
    [i \in 1..Cardinality({ j \in DOMAIN taskIds : ~Exists(ts, taskIds[j]) }) |->
        "Task not found: " \o taskIds[
            CHOOSE j \in DOMAIN taskIds :
                /\ ~Exists(ts, taskIds[j])
                /\ Cardinality({ k \in 1..j : ~Exists(ts, taskIds[k]) }) = i]]

\* The routingAssessment the loop computes for each task:
\* cognitiveRouter.assessTaskComplexity(task).
routingAssessments(toReassess) ==
    [i \in DOMAIN toReassess |-> assessTaskComplexity(toReassess[i])]

\* The store after the loop has handled toReassess[i] and the tasks behind
\* it: updateTask(task.id, { cognitiveRouting: routingAssessment }), its
\* answer not looked at.
RECURSIVE reassessStore(_, _, _, _, _)
reassessStore(ts, toReassess, assessments, i, now) ==
    IF i > Len(toReassess) THEN ts
    ELSE reassessStore(
            updateTask(ts, toReassess[i].id,
                       [cognitiveRouting |-> assessments[i]], now),
            toReassess, assessments, i + 1, now)

\* The loop calls storeEpisodicMemory for this assessment:
\* systemRecommendation === 'SYSTEM_2' && level >= TaskComplexityLevel.HIGH.
ReassessStoresEpisode(assessment) ==
    /\ assessment.systemRecommendation = "SYSTEM_2"
    /\ JsStringGeq(assessment.level, TaskComplexityLevel.HIGH)

\* The episode files after the loop has handled toReassess[i] and the tasks
\* behind it.
RECURSIVE reassessEpisodes(_, _, _, _)
reassessEpisodes(eps, toReassess, assessments, i) ==
    IF i > Len(toReassess) THEN eps
    ELSE reassessEpisodes(
            IF ReassessStoresEpisode(assessments[i])
            THEN storeEpisodicMemory(eps, toReassess[i], assessments[i])
            ELSE eps,
            toReassess, assessments, i + 1)

\* What reassessCognitiveRouting(taskIds) answers.
reassessCognitiveRoutingReturn(ts, taskIds) ==
    [op |-> "reassessCognitiveRouting",
     taskIds |-> taskIds,
     success |-> (Len(NotFoundErrors(ts, taskIds)) = 0),
     reassessed |-> Len(tasksToReassess(ts, taskIds)),
     errors |-> NotFoundErrors(ts, taskIds)]

ReassessCognitiveRouting(taskIds) ==
    /\ \E toReassess \in { tasksToReassess(tasks, taskIds) } :
       \E assessments \in { routingAssessments(toReassess) } :
          /\ tasks' = reassessStore(tasks, toReassess, assessments, 1, clock)
          /\ episodes' = reassessEpisodes(episodes, toReassess, assessments, 1)
    /\ ret' = reassessCognitiveRoutingReturn(tasks, taskIds)
    /\ UNCHANGED <<config, routerVars, scoreVars, auxVars, idPool, clock>>

\* createTask arguments: a LOW task (10 + 5) and a HIGH task
\* (10 + 30 + 10 + 10).
ReassessCreateInputs ==
    { [name |-> "Simple Test Task", description |-> T_simpleDescription,
       dependencies |-> <<>>],
      [name |-> "Complex Test Task", description |-> T_scenarioB,
       notes |-> notes201,
       dependencies |-> DependencyIds(dependencyThresholdHigh)] }

\* updateTaskContent(taskId, updates): longer notes, and longer notes with
\* more dependencies.
ReassessContentDocs ==
    { [notes |-> notes501],
      [notes |-> notes501,
       dependencies |-> DependencyIds(dependencyThresholdHigh)] }

\* reassessCognitiveRouting(taskIds): every task, one task, and a task with
\* an id the store does not hold.
ReassessIdLists ==
    { <<>>, <<TaskIds[1]>>, <<TaskIds[2], "task-0">> }

ReassessInit ==
    /\ LoaderInit
    /\ ScoreIdle
    /\ AuxIdle
    /\ RouterIdle
    /\ tasks = <<>>
    /\ episodes = EmptyObj
    /\ idPool = TaskIds
    /\ clock = 0

ReassessNext ==
    \/ \E input \in ReassessCreateInputs : CreateTask(input)
    \/ \E taskId \in IdSet, updates \in ReassessContentDocs :
          UpdateTaskContent(taskId, updates)
    \/ \E taskId \in IdSet : UpdateTaskStatus(taskId, TaskStatus.COMPLETED)
    \/ \E taskIds \in ReassessIdLists : ReassessCognitiveRouting(taskIds)

SpecReassess == ReassessInit /\ [][ReassessNext]_vars

(***************************************************************************)
(* RoutingPerformanceMonitor (tools/routingMetrics.ts)                     *)
(* Response times, success rates and trends are left out: they are         *)
(* derived from the clock and from the fields kept here.  monitor.arrived  *)
(* is not a field of the program: it lists every decision handed to        *)
(* recordRoutingDecision, so that the history can be compared with it.     *)
(***************************************************************************)

\* The code keeps the last 10000 decisions; the model keeps this many.
maxHistorySize == 3

initializeMetrics ==
    [system1_calls |-> 0, system2_calls |-> 0, hybrid_calls |-> 0,
     accuracy_metrics |-> [correct_routing_decisions |-> 0,
                           total_routing_decisions |-> 0]]

\* new RoutingPerformanceMonitor().
NewMonitor ==
    [constructed |-> TRUE, metrics |-> initializeMetrics,
     decisionHistory |-> <<>>, arrived |-> <<>>]

RoutingDecisionRecord(taskId, taskName, assessment, result) ==
    [taskId |-> taskId,
     taskName |-> taskName,
     complexityScore |-> assessment.complexityScore,
     systemRecommendation |-> assessment.systemRecommendation,
     mcpServerTarget |-> assessment.mcpServerTarget,
     success |-> result.success]

\* A monitor that drops the decision that has just arrived when the
\* history is full.
pushDecision_DropsNewest(decisionHistory, decision) ==
    IF Len(Append(decisionHistory, decision)) > maxHistorySize
    THEN decisionHistory
    ELSE Append(decisionHistory, decision)

\* decisionHistory.push(decision), then shift() when over maxHistorySize.
pushDecision(decisionHistory, decision) ==
    IF Len(Append(decisionHistory, decision)) > maxHistorySize
    THEN Tail(Append(decisionHistory, decision))
    ELSE Append(decisionHistory, decision)

updateMetrics(metrics, decision) ==
    [system1_calls |->
        metrics.system1_calls
        + (IF decision.systemRecommendation = "SYSTEM_1" THEN 1 ELSE 0),
     system2_calls |->
        metrics.system2_calls
        + (IF decision.systemRecommendation = "SYSTEM_2" THEN 1 ELSE 0),
     hybrid_calls |->
        metrics.hybrid_calls
        + (IF decision.systemRecommendation = "HYBRID" THEN 1 ELSE 0),
     accuracy_metrics |->
        [total_routing_decisions |->
            metrics.accuracy_metrics.total_routing_decisions + 1,
         correct_routing_decisions |->
            metrics.accuracy_metrics.correct_routing_decisions
            + (IF decision.success THEN 1 ELSE 0)]]

\* The monitor m after recordRoutingDecision(taskId, taskName, assessment,
\* result).
recordRoutingDecision(m, taskId, taskName, assessment, result) ==
    LET decision == RoutingDecisionRecord(taskId, taskName, assessment, result)
    IN  [constructed |-> TRUE,
         metrics |-> updateMetrics(m.metrics, decision),
         decisionHistory |-> pushDecision(m.decisionHistory, decision),
         arrived |-> Append(m.arrived, decision)]

(***************************************************************************)
(* MCPIntegrationLayer (tools/mcpIntegration.ts)                           *)
(* What a backend answers is outside the program: up.supabase and          *)
(* up.graphiti say whether the tool call to that backend succeeds on some  *)
(* attempt of executeWithRetry (TRUE) or fails on every attempt (FALSE).   *)
(* mcp.calls lists the calls the layer received while the last handler     *)
(* ran, each with the result it returned.                                  *)
(***************************************************************************)

DEFAULT_RETRY_CONFIG ==
    [maxRetries |-> 3, baseDelay |-> 1000, backoffMultiplier |-> 2,
     maxDelay |-> 10000]

DEFAULT_MCP_CONFIG ==
    [supabase |-> [enabled |-> TRUE], graphiti |-> [enabled |-> TRUE]]

\* new MCPIntegrationLayer(config, retryConfig).
NewMcp(cfg, retryConfig) ==
    [constructed |-> TRUE,
     config |-> Spread(DEFAULT_MCP_CONFIG, cfg),
     retryConfig |-> Spread(DEFAULT_RETRY_CONFIG, retryConfig),
     calls |-> <<>>]

SupabaseOperationTypes ==
    {"read_table_rows", "create_table_records", "update_table_records",
     "delete_table_records"}

GraphitiOperationTypes ==
    {"add_memory", "search_memory_nodes", "search_memory_facts",
     "get_episodes", "clear_graph"}

\* The result built in a catch block.
FailedResult(serverType, error) ==
    [success |-> FALSE, error |-> error, serverType |-> serverType]

\* Whether an asynchronous call ended by throwing rather than by returning.
Threw(outcome) == "threw" \in DOMAIN outcome

\* callSupabaseMCP(operation): every error raised inside is caught and
\* turned into a result.
callSupabaseMCP(layer, operation, up) ==
    IF ~layer.config.supabase.enabled
    THEN FailedResult("supabase", "Supabase MCP is disabled in configuration")
    ELSE IF operation.type \notin SupabaseOperationTypes
    THEN FailedResult("supabase", "Unsupported Supabase operation: " \o operation.type)
    ELSE IF ~up.supabase
    THEN FailedResult("supabase", "MCP tool call failed")
    ELSE [success |-> TRUE, serverType |-> "supabase"]

callGraphitiMCP(layer, operation, up) ==
    IF ~layer.config.graphiti.enabled
    THEN FailedResult("graphiti", "Graphiti MCP is disabled in configuration")
    ELSE IF operation.type \notin GraphitiOperationTypes
    THEN FailedResult("graphiti", "Unsupported Graphiti operation: " \o operation.type)
    ELSE IF ~up.graphiti
    THEN FailedResult("graphiti", "MCP tool call failed")
    ELSE [success |-> TRUE, serverType |-> "graphiti"]

\* A call the layer received, and what it returned.
LayerCall(server, result) == [server |-> server, result |-> result]

\* executeHybridOperation(operation): the result, and the calls made to
\* reach it.
executeHybridOperation(layer, operation, up) ==
    LET supabaseResult == callSupabaseMCP(layer, operation.supabaseOperation, up)
        graphitiResult == callGraphitiMCP(layer, operation.graphitiOperation, up)
        supabaseCall == LayerCall("supabase", supabaseResult)
        graphitiCall == LayerCall("graphiti", graphitiResult)
    IN  IF operation.coordination.sequence
              \notin {"supabase_first", "graphiti_first", "parallel"}
        THEN [result |-> FailedResult("graphiti", "TypeError"), calls |-> <<>>]
        ELSE [result |->
                [success |-> supabaseResult.success /\ graphitiResult.success,
                 serverType |-> "graphiti"],
              calls |->
                IF operation.coordination.sequence = "graphiti_first"
                THEN <<graphitiCall, supabaseCall>>
                ELSE <<supabaseCall, graphitiCall>>]

\* The hybrid operation executeViaMCP builds.
coordinatedAnalysis ==
    [type |-> "coordinated_analysis",
     supabaseOperation |-> [type |-> "read_table_rows"],
     graphitiOperation |-> [type |-> "search_memory_nodes"],
     coordination |-> [sequence |-> "supabase_first",
                       dataFlow |-> "supabase_to_graphiti",
                       resultCombination |-> "merge"]]

\* CognitiveRouter.executeViaMCP(systemType, operation, ...) up to the
\* recording of the decision: the result, and the calls the layer received.
executeViaMCP(layer, systemType, operation, up) ==
    IF systemType = "supabase" \/ operation.type = "supabase"
    THEN \* Route to Supabase MCP (System 1)
         LET result == callSupabaseMCP(layer, [type |-> operation.operation], up)
         IN  [result |-> result, calls |-> << LayerCall("supabase", result) >>]
    ELSE IF systemType = "graphiti" \/ operation.type = "graphiti"
    THEN \* Route to Graphiti MCP (System 2)
         LET result == callGraphitiMCP(layer, [type |-> operation.operation], up)
         IN  [result |-> result, calls |-> << LayerCall("graphiti", result) >>]
    ELSE IF systemType = "hybrid"
    THEN \* Coordinate both systems
         executeHybridOperation(layer, coordinatedAnalysis, up)
    ELSE [result |-> FailedResult(operation.type, "Unknown system type: " \o systemType),
          calls |-> <<>>]

\* The assessment executeTaskWithCognitiveRouting routes task by.
routingAssessmentOf(task) ==
    IF "cognitiveRouting" \in DOMAIN task
    THEN task.cognitiveRouting
    ELSE assessTaskComplexity(task)

\* The operation executeTaskWithCognitiveRouting hands to the router.
mcpOperation(routingAssessment, operation) ==
    [type |-> IF routingAssessment.mcpServerTarget = "supabase"
              THEN "supabase" ELSE "graphiti",
     operation |-> operation.operation]

\* The decisions recorded so far, capped so that the monitor stays finite.
MaxDecisions == 5

\* executeTaskWithCognitiveRouting(taskId, operation) while the backends
\* answer as up says.
ExecuteTaskWithCognitiveRouting(taskId, operation, up) ==
    /\ mcp.constructed
    /\ Len(monitor.arrived) < MaxDecisions
    /\ IF ~Exists(tasks, taskId)
       THEN /\ ret' = [op |-> "executeTaskWithCognitiveRouting", taskId |-> taskId,
                       success |-> FALSE, error |-> "Task not found"]
            /\ mcp' = [mcp EXCEPT !.calls = <<>>]
            /\ UNCHANGED <<tasks, monitor>>
       ELSE \E task \in { getTaskById(tasks, taskId) } :
            \E routingAssessment \in { routingAssessmentOf(task) } :
            \E via \in { executeViaMCP(mcp, routingAssessment.mcpServerTarget,
                                       mcpOperation(routingAssessment, operation),
                                       up) } :
               /\ tasks' = IF "cognitiveRouting" \in DOMAIN task
                           THEN tasks
                           ELSE updateTask(tasks, taskId,
                                           [cognitiveRouting |-> routingAssessment],
                                           clock)
               /\ mcp' = [mcp EXCEPT !.calls = via.calls]
               /\ monitor' = IF taskId # "" /\ task.name # ""
                             THEN recordRoutingDecision(monitor, taskId, task.name,
                                                        routingAssessment, via.result)
                             ELSE monitor
               /\ ret' = [op |-> "executeTaskWithCognitiveRouting",
                          taskId |-> taskId,
                          success |-> via.result.success,
                          target |-> routingAssessment.mcpServerTarget]
    /\ UNCHANGED <<config, routerVars, scoreVars, reader, procs, episodes, idPool, clock>>

\* checkConnectionStatus(): a backend is reported connected when the probe
\* call returned, and left unconnected when it threw.
checkConnectionStatusReturn(layer, up) ==
    [supabase |->
        [connected |-> ~Threw(callSupabaseMCP(layer, [type |-> "read_table_rows"], up))],
     graphiti |->
        [connected |-> ~Threw(callGraphitiMCP(layer, [type |-> "search_memory_nodes"], up))]]

CheckConnectionStatus(up) ==
    /\ mcp.constructed
    /\ mcp' = [mcp EXCEPT !.calls =
                 << LayerCall("supabase",
                              callSupabaseMCP(mcp, [type |-> "read_table_rows"], up)),
                    LayerCall("graphiti",
                              callGraphitiMCP(mcp, [type |-> "search_memory_nodes"], up)) >>]
    /\ ret' = [op |-> "checkConnectionStatus",
               status |-> checkConnectionStatusReturn(mcp, up)]
    /\ UNCHANGED <<config, routerVars, scoreVars, reader, procs, monitor, storeVars>>

\* The connection configurations a layer is built with.
McpConfigDocs ==
    { EmptyObj,
      [supabase |-> [enabled |-> FALSE]],
      [graphiti |-> [enabled |-> FALSE]],
      [supabase |-> [enabled |-> FALSE], graphiti |-> [enabled |-> FALSE]] }

\* What the two backends may answer.
ToolOutcomes == [{"supabase", "graphiti"} -> BOOLEAN]

\* createTask arguments: a LOW task (10 + 5), a MEDIUM task (10 + 15 + 10)
\* and a HIGH task (10 + 30 + 10 + 10).
McpCreateInputs ==
    { [name |-> "Simple Test Task", description |-> T_simpleDescription,
       dependencies |-> <<>>],
      [name |-> "Hybrid Test Task", description |-> T_simpleDescription,
       notes |-> notes201,
       dependencies |-> DependencyIds(dependencyThresholdMedium)],
      [name |-> "Complex Test Task", description |-> T_scenarioB,
       notes |-> notes201,
       dependencies |-> DependencyIds(dependencyThresholdHigh)] }

\* The operations a caller asks for.
McpOperations ==
    { [operation |-> "read_table_rows"], [operation |-> "search_memory_nodes"] }

McpInit ==
    /\ LoaderInit
    /\ ScoreIdle
    /\ RouterIdle
    /\ ReaderIdle
    /\ procs = <<>>
    /\ \E cfg \in McpConfigDocs : mcp = NewMcp(cfg, EmptyObj)
    /\ monitor = NewMonitor
    /\ tasks = <<>>
    /\ episodes = EmptyObj
    /\ idPool = <<TaskIds[1]>>
    /\ clock = 0

McpNext ==
    \/ \E input \in McpCreateInputs : CreateTask(input)
    \/ \E taskId \in IdSet, operation \in McpOperations, up \in ToolOutcomes :
          ExecuteTaskWithCognitiveRouting(taskId, operation, up)
    \/ \E up \in ToolOutcomes : CheckConnectionStatus(up)

SpecMcp == McpInit /\ [][McpNext]_vars

(***************************************************************************)
(* MCPIntegrationLayer.executeWithRetry, one step per await                *)
(* procs holds the calls in progress.  A call of executeWithRetry is at    *)
(* "attempt" while it awaits operation(), at "wait" while it awaits the    *)
(* timer, and ends at "returned" or "threw".  errors lists the error of    *)
(* every failed attempt and waits the delay of every timer set; neither    *)
(* is a variable of the code.  What operation() does is outside the        *)
(* function: each attempt returns a value or throws an Error.              *)
(***************************************************************************)

\* A layer that does not cap the delay.
retryDelay_Uncapped(retryConfig, attempt) ==
    retryConfig.baseDelay * retryConfig.backoffMultiplier ^ attempt

\* Math.min(baseDelay * Math.pow(backoffMultiplier, attempt), maxDelay).
retryDelay(retryConfig, attempt) ==
    Min(retryConfig.baseDelay * retryConfig.backoffMultiplier ^ attempt,
        retryConfig.maxDelay)

\* The call at its first pass through the loop condition.
NewRetry(retryConfig) ==
    [op |-> "executeWithRetry",
     retryConfig |-> retryConfig,
     pc |-> IF 0 <= retryConfig.maxRetries THEN "attempt" ELSE "threw",
     attempt |-> 0,
     invoked |-> 0,
     errors |-> <<>>,
     waits |-> <<>>]

RetryEnded(p) == p.pc \in {"returned", "threw"}

\* executeWithRetry(operation) is called.
ExecuteWithRetry ==
    /\ mcp.constructed
    /\ IF procs = <<>> THEN TRUE ELSE RetryEnded(procs[1])
    /\ procs' = << NewRetry(mcp.retryConfig) >>
    /\ UNCHANGED <<config, ret, routerVars, storeVars, scoreVars, reader, mcp, monitor>>

\* The call p after operation() has settled with outcome.
afterAttempt(p, outcome) ==
    IF outcome.ok
    THEN Spread([p EXCEPT !.pc = "returned", !.invoked = @ + 1],
                [result |-> outcome.value])
    ELSE Spread([p EXCEPT
                    !.pc = IF p.attempt = p.retryConfig.maxRetries
                           THEN "threw" ELSE "wait",
                    !.invoked = @ + 1,
                    !.errors = Append(@, outcome.error),
                    !.waits = IF p.attempt = p.retryConfig.maxRetries
                              THEN @
                              ELSE Append(@, retryDelay(p.retryConfig, p.attempt))],
                [lastError |-> outcome.error])

\* operation() settles.
RetryAttempt(outcome) ==
    /\ procs # <<>>
    /\ procs[1].pc = "attempt"
    /\ procs' = << afterAttempt(procs[1], outcome) >>
    /\ UNCHANGED <<config, ret, routerVars, storeVars, scoreVars, reader, mcp, monitor>>

\* The timer fires: attempt++ and the loop condition, which holds since the
\* loop did not break.
RetryWake ==
    /\ procs # <<>>
    /\ procs[1].pc = "wait"
    /\ procs' = << [procs[1] EXCEPT !.pc = "attempt", !.attempt = @ + 1] >>
    /\ UNCHANGED <<config, ret, routerVars, storeVars, scoreVars, reader, mcp, monitor>>

\* The retry configurations a layer is built with: the default, one whose
\* maxDelay is reached, one retry, and no retry.
RetryConfigDocs ==
    { EmptyObj, [maxDelay |-> 3000], [maxRetries |-> 1], [maxRetries |-> 0] }

\* What an attempt may end with.
AttemptOutcomes ==
    { [ok |-> TRUE, value |-> "rows"],
      [ok |-> FALSE, error |-> "MCP tool call timed out"],
      [ok |-> FALSE, error |-> "MCP server unavailable"] }

RetryInit ==
    /\ LoaderInit
    /\ ScoreIdle
    /\ RouterIdle
    /\ StoreIdle
    /\ ReaderIdle
    /\ procs = <<>>
    /\ monitor = [constructed |-> FALSE]
    /\ \E retryConfig \in RetryConfigDocs : mcp = NewMcp(EmptyObj, retryConfig)

RetryNext ==
    \/ ExecuteWithRetry
    \/ \E outcome \in AttemptOutcomes : RetryAttempt(outcome)
    \/ RetryWake

\* Every awaited promise settles: operation() returns or throws, and a
\* timer that was set fires.
RetryFairness ==
    /\ WF_vars(\E outcome \in AttemptOutcomes : RetryAttempt(outcome))
    /\ WF_vars(RetryWake)

SpecRetry == RetryInit /\ [][RetryNext]_vars /\ RetryFairness

(***************************************************************************)
(* batchCreateOrUpdateTasks (models/taskModel.ts)                          *)
(* A field assigned undefined is not written to the tasks file, so it is   *)
(* absent from the stored task.  The identifiers uuidv4() hands out are    *)
(* the ones of idPool; they match the UUID pattern and task names do not.  *)
(***************************************************************************)

\* taskNameToIdMap.set(key, value).
MapSet(map, key, value) ==
    [k \in DOMAIN map \cup {key} |-> IF k = key THEN value ELSE map[k]]

\* ts.forEach(task => taskNameToIdMap.set(task.name, task.id)) from entry i.
RECURSIVE NamesToIds(_, _, _)
NamesToIds(map, ts, i) ==
    IF i > Len(ts) THEN map
    ELSE NamesToIds(MapSet(map, ts[i].name, ts[i].id), ts, i + 1)

\* object.field = source.field, where a missing source.field is undefined.
SetOrDrop(object, source, field) ==
    IF field \in DOMAIN source
    THEN Spread(object, [f \in {field} |-> source[field]])
    ELSE [f \in DOMAIN object \ {field} |-> object[f]]

NamesOf(taskDataList) == { taskDataList[i].name : i \in DOMAIN taskDataList }

\* tasksToKeep as computed from the update mode.
tasksToKeep(existingTasks, taskDataList, updateMode) ==
    LET IsCompleted(task) == task.status = TaskStatus.COMPLETED
        NotInUpdateList(task) == task.name \notin NamesOf(taskDataList)
    IN  IF updateMode = "append" THEN existingTasks
        ELSE IF updateMode = "overwrite" THEN SelectSeq(existingTasks, IsCompleted)
        ELSE IF updateMode = "selective" THEN SelectSeq(existingTasks, NotInUpdateList)
        ELSE <<>>

\* The task a selective update makes of taskToUpdate.
updatedTask(taskToUpdate, taskData, globals, now) ==
    LET named == [taskToUpdate EXCEPT !.name = taskData.name,
                                      !.description = taskData.description,
                                      !.updatedAt = now]
        noted == SetOrDrop(named, taskData, "notes")
        guided == SetOrDrop(noted, taskData, "implementationGuide")
        verified == SetOrDrop(guided, taskData, "verificationCriteria")
        analysed == SetOrDrop(verified, globals, "analysisResult")
    IN  IF "relatedFiles" \in DOMAIN taskData
        THEN Spread(analysed, [relatedFiles |-> taskData.relatedFiles])
        ELSE analysed

\* The task created for taskData, assessed before its dependencies are
\* filled in.
batchNewTask(id, taskData, globals, now) ==
    LET newTask ==
            Spread(Spread([id |-> id,
                           name |-> taskData.name,
                           description |-> taskData.description,
                           status |-> TaskStatus.PENDING,
                           dependencies |-> <<>>,
                           createdAt |-> now,
                           updatedAt |-> now],
                          [field \in {"notes", "relatedFiles", "implementationGuide",
                                      "verificationCriteria"} \cap DOMAIN taskData |->
                               taskData[field]]),
                   [field \in {"analysisResult"} \cap DOMAIN globals |-> globals[field]])
    IN  Spread(newTask, [cognitiveRouting |-> assessTaskComplexity(newTask)])

\* One pass of the loop over taskDataList.  st holds tasksToKeep, newTasks,
\* taskNameToIdMap, the identifiers left and the episode files.
createOrUpdate(st, existingTasks, taskData, updateMode, globals, now) ==
    IF updateMode = "selective" /\ taskData.name \in DOMAIN st.map
    THEN LET existingTaskId == st.map[taskData.name]
             existingTaskIndex == FindIndex(existingTasks, existingTaskId)
             StaysKept(task) == task.id # existingTaskId
         IN  IF /\ existingTaskIndex # 0
                /\ existingTasks[existingTaskIndex].status # TaskStatus.COMPLETED
             THEN [st EXCEPT
                     !.newTasks = Append(@, updatedTask(existingTasks[existingTaskIndex],
                                                        taskData, globals, now)),
                     !.keep = SelectSeq(@, StaysKept)]
             ELSE st
    ELSE LET newTask == batchNewTask(Head(st.ids), taskData, globals, now)
         IN  [keep |-> st.keep,
              newTasks |-> Append(st.newTasks, newTask),
              map |-> MapSet(st.map, taskData.name, newTask.id),
              ids |-> Tail(st.ids),
              eps |-> IF RoutedToSystem2(newTask.cognitiveRouting)
                      THEN storeEpisodicMemory(st.eps, newTask, newTask.cognitiveRouting)
                      ELSE st.eps]

RECURSIVE createOrUpdateEach(_, _, _, _, _, _, _)
createOrUpdateEach(st, existingTasks, taskDataList, updateMode, globals, now, i) ==
    IF i > Len(taskDataList) THEN st
    ELSE createOrUpdateEach(
             createOrUpdate(st, existingTasks, taskDataList[i], updateMode, globals, now),
             existingTasks, taskDataList, updateMode, globals, now, i + 1)

\* dependencyName.match(/^[0-9a-f]{8}-...-[0-9a-f]{12}$/i).
MatchesUuid(dependencyName) ==
    Len(dependencyName) > 5 /\ SubSeq(dependencyName, 1, 5) = "task-"

\* The dependencies resolved from names[k..]: a name is looked up in
\* taskNameToIdMap, an identifier is kept when a kept or new task has it,
\* and anything else is skipped.
RECURSIVE resolvedDependencies(_, _, _)
resolvedDependencies(names, st, k) ==
    IF k > Len(names) THEN <<>>
    ELSE ( IF MatchesUuid(names[k])
           THEN IF \E j \in DOMAIN (st.keep \o st.newTasks) :
                      (st.keep \o st.newTasks)[j].id = names[k]
                THEN << [taskId |-> names[k]] >>
                ELSE <<>>
           ELSE IF names[k] \in DOMAIN st.map
                THEN << [taskId |-> st.map[names[k]]] >>
                ELSE <<>> )
         \o resolvedDependencies(names, st, k + 1)

\* taskData.dependencies, or none.
DependenciesOf(taskData) ==
    IF "dependencies" \in DOMAIN taskData THEN taskData.dependencies ELSE <<>>

\* The loop over taskDataList that fills in the dependencies, from entry i.
\* Writing to newTasks[i] when newTasks is shorter throws a TypeError.
RECURSIVE attachDependencies(_, _, _)
attachDependencies(st, taskDataList, i) ==
    IF i > Len(taskDataList) THEN [threw |-> FALSE, newTasks |-> st.newTasks]
    ELSE IF DependenciesOf(taskDataList[i]) = <<>>
    THEN attachDependencies(st, taskDataList, i + 1)
    ELSE IF i > Len(st.newTasks)
    THEN [threw |-> TRUE, newTasks |-> st.newTasks]
    ELSE attachDependencies(
             [st EXCEPT !.newTasks[i].dependencies =
                 resolvedDependencies(DependenciesOf(taskDataList[i]), st, 1)],
             taskDataList, i + 1)

\* tasksToKeep, newTasks and taskNameToIdMap when the loop that creates and
\* updates tasks has ended.
afterCreateOrUpdate(ts, eps, ids, taskDataList, updateMode, globals, now) ==
    LET keep == tasksToKeep(ts, taskDataList, updateMode)
    IN  createOrUpdateEach(
            [keep |-> keep,
             newTasks |-> <<>>,
             map |-> NamesToIds(IF updateMode = "selective"
                                THEN NamesToIds(EmptyObj, ts, 1)
                                ELSE EmptyObj,
                                keep, 1),
             ids |-> ids,
             eps |-> eps],
            ts, taskDataList, updateMode, globals, now, 1)

\* batchCreateOrUpdateTasks(taskDataList, updateMode, globalAnalysisResult)
\* on the store ts: whether it threw, newTasks, allTasks, and the
\* identifiers and episode files left behind.
batchCreateOrUpdateTasks(ts, eps, ids, taskDataList, updateMode, globals, now) ==
    LET st == afterCreateOrUpdate(ts, eps, ids, taskDataList, updateMode, globals, now)
        attached == attachDependencies(st, taskDataList, 1)
    IN  [threw |-> attached.threw,
         newTasks |-> attached.newTasks,
         allTasks |-> st.keep \o attached.newTasks,
         ids |-> st.ids,
         eps |-> st.eps]

BatchCreateOrUpdateTasks(taskDataList, updateMode, globals) ==
    /\ Len(taskDataList) <= Len(idPool)
    /\ \E out \in { batchCreateOrUpdateTasks(tasks, episodes, idPool, taskDataList,
                                             updateMode, globals, clock) } :
          /\ tasks' = IF out.threw THEN tasks ELSE out.allTasks
          /\ episodes' = out.eps
          /\ idPool' = out.ids
          /\ ret' = [op |-> "batchCreateOrUpdateTasks",
                     updateMode |-> updateMode,
                     taskDataList |-> taskDataList,
                     globals |-> globals,
                     threw |-> out.threw,
                     newTasks |-> IF out.threw THEN <<>> ELSE out.newTasks]
    /\ UNCHANGED <<config, routerVars, scoreVars, auxVars, clock>>

BatchIds == <<"task-1", "task-2", "task-3">>

UpdateModes == {"append", "overwrite", "selective", "clearAllTasks"}

\* Task lists a caller hands in: one task, a task and one that depends on
\* it by name, a task that depends on the first identifier, and the same
\* task without dependencies.
BatchTaskLists ==
    { << [name |-> "Task A", description |-> T_simpleDescription] >>,
      << [name |-> "Task A", description |-> T_plainDescription,
          notes |-> T_simpleNotes],
         [name |-> "Task B", description |-> T_simpleDescription,
          dependencies |-> <<"Task A", "Task C">>] >>,
      << [name |-> "Task B", description |-> T_plainDescription,
          dependencies |-> <<"task-1">>] >>,
      << [name |-> "Task B", description |-> T_plainDescription] >> }

\* globalAnalysisResult, given or not.
BatchGlobals == { [analysisResult |-> "Split by module"] }

BatchInit ==
    /\ LoaderInit
    /\ ScoreIdle
    /\ AuxIdle
    /\ RouterIdle
    /\ tasks = <<>>
    /\ episodes = EmptyObj
    /\ idPool = BatchIds
    /\ clock = 0

BatchNext ==
    \/ \E taskDataList \in BatchTaskLists, updateMode \in UpdateModes,
          globals \in BatchGlobals :
          BatchCreateOrUpdateTasks(taskDataList, updateMode, globals)
    \/ \E i \in DOMAIN BatchIds : UpdateTaskStatus(BatchIds[i], TaskStatus.COMPLETED)

SpecBatch == BatchInit /\ [][BatchNext]_vars

(***************************************************************************)
(* Store operations whose file accesses interleave (models/taskModel.ts)   *)
(* createTask, updateTask and deleteTask each await readTasks(), compute   *)
(* the new list from what they read, and await writeTasks(list).  A call   *)
(* in procs is at "read" before its readTasks() has returned, at "write"   *)
(* before its writeTasks() has run, and then "done".  snapshot and toWrite *)
(* are the call's local variable tasks as read and as handed to            *)
(* writeTasks; wrote numbers the writes to the file in the order they      *)
(* happened (0: none) and is not a variable of the code.                   *)
(***************************************************************************)

\* deleteTask(taskId) returns success: false.
deleteTaskRejects(ts, taskId) ==
    \/ ~Exists(ts, taskId)
    \/ getTaskById(ts, taskId).status = TaskStatus.COMPLETED
    \/ \E j \in DOMAIN ts :
          /\ j # FindIndex(ts, taskId)
          /\ \E d \in DOMAIN ts[j].dependencies : ts[j].dependencies[d].taskId = taskId

\* The list deleteTask(taskId) hands to writeTasks.
deleteTask(ts, taskId) ==
    IF deleteTaskRejects(ts, taskId) THEN ts
    ELSE SubSeq(ts, 1, FindIndex(ts, taskId) - 1)
         \o SubSeq(ts, FindIndex(ts, taskId) + 1, Len(ts))

\* A tasks file in which a write keeps the tasks it does not hold.
writeTasks_KeepsOthers(file, ts) ==
    LET Missing(task) == \A j \in DOMAIN ts : ts[j].id # task.id
    IN  ts \o SelectSeq(file, Missing)

\* fs.writeFile(TASKS_FILE, JSON.stringify({ tasks })): the file holds the
\* list written.
writeTasks(file, ts) == ts

\* A call of a store operation that has not read the file yet.
NewCall(op, args) ==
    [op |-> op, args |-> args, pc |-> "read", snapshot |-> <<>>,
     toWrite |-> <<>>, wrote |-> 0]

\* Whether the call p returns without writing once it has read ts.
ReturnsEarly(p, ts) ==
    IF p.op = "updateTask" THEN updateTaskRejects(ts, p.args.taskId, p.args.updates)
    ELSE IF p.op = "deleteTask" THEN deleteTaskRejects(ts, p.args.taskId)
    ELSE FALSE

\* The list the call p computes from the list ts it has read.
ComputedList(p, ts, id, now) ==
    IF p.op = "createTask" THEN Append(ts, NewTask(id, p.args, now))
    ELSE IF p.op = "updateTask" THEN updateTask(ts, p.args.taskId, p.args.updates, now)
    ELSE deleteTask(ts, p.args.taskId)

\* readTasks() returns to call i, which runs up to its next await.
ReadTasks(i) ==
    /\ i \in DOMAIN procs
    /\ procs[i].op \in {"createTask", "updateTask", "deleteTask"}
    /\ procs[i].pc = "read"
    /\ procs[i].op = "createTask" => idPool # <<>>
    /\ \E id \in { IF procs[i].op = "createTask" THEN Head(idPool) ELSE "" } :
          /\ procs' = [procs EXCEPT ![i] =
                IF ReturnsEarly(procs[i], tasks)
                THEN [procs[i] EXCEPT !.pc = "done", !.snapshot = tasks]
                ELSE Spread([procs[i] EXCEPT
                                !.pc = "write",
                                !.snapshot = tasks,
                                !.toWrite = ComputedList(procs[i], tasks, id, clock)],
                            [k \in (IF procs[i].op = "createTask"
                                    THEN {"newId"} ELSE {}) |-> id])]
          /\ episodes' =
                IF /\ procs[i].op = "createTask"
                   /\ RoutedToSystem2(NewTask(id, procs[i].args, clock).cognitiveRouting)
                THEN storeEpisodicMemory(episodes, NewTask(id, procs[i].args, clock),
                                         NewTask(id, procs[i].args, clock).cognitiveRouting)
                ELSE episodes
    /\ idPool' = IF procs[i].op = "createTask" THEN Tail(idPool) ELSE idPool
    /\ ret' = IF ReturnsEarly(procs[i], tasks)
              THEN [op |-> procs[i].op, call |-> i, isNull |-> TRUE]
              ELSE ret
    /\ UNCHANGED <<config, routerVars, scoreVars, reader, mcp, monitor, tasks, clock>>

\* writeTasks(tasks) of call i runs, and the call returns.
WriteTasks(i) ==
    /\ i \in DOMAIN procs
    /\ procs[i].op \in {"createTask", "updateTask", "deleteTask"}
    /\ procs[i].pc = "write"
    /\ tasks' = writeTasks(tasks, procs[i].toWrite)
    /\ procs' = [procs EXCEPT ![i] =
          [procs[i] EXCEPT
              !.pc = "done",
              !.wrote = 1 + Cardinality({j \in DOMAIN procs : procs[j].wrote > 0})]]
    /\ ret' = [op |-> procs[i].op, call |-> i, isNull |-> FALSE]
    /\ UNCHANGED <<config, routerVars, scoreVars, reader, mcp, monitor, episodes, idPool, clock>>

\* The store the calls start from: two pending tasks made by createTask.
ConcurrentStore ==
    << NewTask("task-1", [name |-> "Simple Test Task",
                          description |-> T_simpleDescription,
                          dependencies |-> <<>>], 0),
       NewTask("task-2", [name |-> "Test Task",
                          description |-> T_plainDescription,
                          dependencies |-> <<>>], 0) >>

\* The calls made: a creation, two updates of the first task and the
\* deletion of the second.
ConcurrentCalls ==
    { NewCall("createTask", [name |-> "Test Task", description |-> T_mockDescription,
                             dependencies |-> <<>>]),
      NewCall("createTask", [name |-> "Simple Test Task",
                             description |-> T_simpleDescription,
                             notes |-> T_simpleNotes, dependencies |-> <<>>]),
      NewCall("updateTask", [taskId |-> "task-1",
                             updates |-> [summary |-> T_partialSummary]]),
      NewCall("updateTask", [taskId |-> "task-1",
                             updates |-> [status |-> TaskStatus.IN_PROGRESS]]),
      NewCall("deleteTask", [taskId |-> "task-2"]) }

ConcurrentInit ==
    /\ LoaderInit
    /\ ScoreIdle
    /\ RouterIdle
    /\ ReaderIdle
    /\ mcp = [constructed |-> FALSE]
    /\ monitor = [constructed |-> FALSE]
    /\ tasks = ConcurrentStore
    /\ episodes = EmptyObj
    /\ idPool = <<"task-3", "task-4">>
    /\ clock = 1
    /\ \E first \in ConcurrentCalls, second \in ConcurrentCalls :
          procs = <<first, second>>

ConcurrentNext ==
    \/ \E i \in 1..2 : ReadTasks(i)
    \/ \E i \in 1..2 : WriteTasks(i)

SpecConcurrent == ConcurrentInit /\ [][ConcurrentNext]_vars

(***************************************************************************)
(* recordRoutingDecision called directly                                   *)
(***************************************************************************)

RecordRoutingDecision(taskId, taskName, assessment, result) ==
    /\ monitor.constructed
    /\ Len(monitor.arrived) < MaxDecisions
    /\ monitor' = recordRoutingDecision(monitor, taskId, taskName, assessment, result)
    /\ UNCHANGED <<config, ret, routerVars, storeVars, scoreVars, reader, mcp, procs>>

\* The assessments of a LOW, a MEDIUM and a HIGH task.
MonitorAssessments ==
    { AssessmentOfScore([description |-> T_simpleDescription, dependencies |-> <<>>],
                        score, FALSE) : score \in {15, 35, 60} }

\* The results of the routed operation.
MonitorResults ==
    { [success |-> TRUE], FailedResult("graphiti", "Graphiti MCP is disabled in configuration") }

MonitorInit ==
    /\ LoaderInit
    /\ ScoreIdle
    /\ RouterIdle
    /\ StoreIdle
    /\ ReaderIdle
    /\ mcp = [constructed |-> FALSE]
    /\ procs = <<>>
    /\ monitor = NewMonitor

MonitorNext ==
    \E assessment \in MonitorAssessments, result \in MonitorResults :
       RecordRoutingDecision("task-1", "Test Task", assessment, result)

SpecMonitor == MonitorInit /\ [][MonitorNext]_vars

(***************************************************************************)
(* Claims about the configuration loader                                   *)
(***************************************************************************)

C2_WeightSumInvariant ==
    \A i \in DOMAIN Profiles :
        LET w == config.intensitySettings[Profiles[i]].weights
        IN  /\ WeightKeys \subseteq DOMAIN w
            /\ Abs(WeightSum(w) - 100) <= 1

\* C3: threshold-ordering invariant.  The active configuration has all three
\* confidence thresholds, with low < medium < high.
C3_ThresholdOrderInvariant ==
    LET t == config.scoring.confidenceThresholds
    IN  /\ {"low", "medium", "high"} \subseteq DOMAIN t
        /\ t.low < t.medium
        /\ t.medium < t.high

(***************************************************************************)
(* Claims about the cognitive router                                       *)
(***************************************************************************)

\* The task of Scenario B: a 343-character description that holds the words
\* temporal, coordination and architecture, no dependency, and notes no
\* longer than the first notes threshold.
IsScenarioB(task) ==
    /\ Len(task.description) = 343
    /\ Includes(ToLowerCase(task.description), "temporal")
    /\ Includes(ToLowerCase(task.description), "coordination")
    /\ Includes(ToLowerCase(task.description), "architecture")
    /\ Len(task.dependencies) = 0
    /\ HasNotes(task)
    /\ NotesLength(task) <= TaskComplexityThresholds.NOTES_LENGTH.MEDIUM

\* C8: Scenario B.  assessTaskComplexity on the Scenario B task returns level
\* High, target graphiti / SYSTEM_2, episodicMemoryRequired = true and
\* temporalContextRequired = true.
C8_ScenarioBIsHigh ==
    (rtOut.returned /\ IsScenarioB(rtTask))
    => ( /\ rtOut.assessment.level = TaskComplexityLevel.HIGH
         /\ rtOut.assessment.mcpServerTarget = "graphiti"
         /\ rtOut.assessment.systemRecommendation = "SYSTEM_2"
         /\ rtOut.assessment.episodicMemoryRequired
         /\ rtOut.assessment.temporalContextRequired )

\* A description under 500 characters, fewer than 2 dependencies, no notes.
IsScenarioA(task) ==
    /\ Len(task.description) < 500
    /\ Len(task.dependencies) < 2
    /\ ~HasNotes(task)

Verified == ret.op = "verifyTask" /\ ~ret.isError

\* The task the last operation was called on is stored as completed.
TargetCompleted ==
    /\ Exists(tasks, ret.taskId)
    /\ getTaskById(tasks, ret.taskId).status = TaskStatus.COMPLETED

\* C4: verifyTask marks the task Completed exactly when the final adjusted
\* score is greater than or equal to scoring.completionThreshold of the
\* active configuration, for every threshold updateConfig accepts; below the
\* threshold the task is not completed.
C4_CompletedIffThresholdReached ==
    Verified
    => (TargetCompleted <=> ret.finalScore >= config.scoring.completionThreshold)

\* C5: whenever verifyTask is called on an in-progress task with a submitted
\* score of 80 or more, whatever the summary and the debate parameters, the
\* stored task ends with status Completed.
C5_SubmittedScore80Completes ==
    (Verified /\ ret.score >= 80) => TargetCompleted

(***************************************************************************)
(* Claims about the task store                                             *)
(***************************************************************************)

\* The fields the claims name as protected once a task is completed.
ProtectedFields ==
    {"status", "description", "dependencies", "completedAt", "completionMetadata"}

\* Two stored tasks agree on field: both lack it or both hold the same value.
SameField(a, b, field) ==
    /\ (field \in DOMAIN a) <=> (field \in DOMAIN b)
    /\ field \in DOMAIN a => a[field] = b[field]

SameTask(a, b) ==
    /\ DOMAIN a = DOMAIN b
    /\ \A field \in DOMAIN a : a[field] = b[field]

SameStore(a, b) ==
    /\ Len(a) = Len(b)
    /\ \A i \in DOMAIN a : SameTask(a[i], b[i])

\* updates names a field other than summary and relatedFiles.
NamesOtherField(updates) == DOMAIN updates \ {"summary", "relatedFiles"} # {}

\* Called now on the completed task taskId, every update operation whose
\* update names a field other than summary or relatedFiles returns its
\* failure value and leaves the store as it is.
CompletedTaskRejectsUpdates(taskId) ==
    /\ \A updates \in StoreUpdateDocs :
          NamesOtherField(updates)
          => /\ updateTaskRejects(tasks, taskId, updates)
             /\ SameStore(updateTask(tasks, taskId, updates, clock), tasks)
    /\ \A status \in StoreStatuses :
          /\ updateTaskRejects(tasks, taskId, StatusUpdates(status, clock))
          /\ SameStore(updateTaskStatus(tasks, taskId, status, clock), tasks)
    /\ updateTaskRejects(tasks, taskId, [completionMetadata |-> CallerMetadata])
    /\ SameStore(updateTaskCompletionMetadata(tasks, taskId, CallerMetadata, clock),
                 tasks)
    /\ updateTaskRejects(tasks, taskId,
                         DebateResultUpdates(T_qualitySummary, CallerMetadata, clock))
    /\ SameStore(updateTaskWithDebateResults(tasks, taskId, T_qualitySummary,
                                             CallerMetadata, clock),
                 tasks)
    /\ \A updates \in StoreContentDocs :
          NamesOtherField(ContentUpdateObj(updates))
          => /\ ~updateTaskContentReturn(tasks, taskId, updates).success
             /\ SameStore(updateTaskContent(tasks, taskId, updates, clock), tasks)

\* A step leaves the protected fields of every completed task as they were.
CompletedTasksKeepProtectedFields ==
    \A i \in DOMAIN tasks :
        tasks[i].status = TaskStatus.COMPLETED
        => \A field \in ProtectedFields : SameField(tasks[i], tasks'[i], field)

\* C6: completed tasks are protected.  For a task stored as Completed, every
\* updateTask, updateTaskStatus, updateTaskContent,
\* updateTaskCompletionMetadata and updateTaskWithDebateResults call whose
\* update names a field other than summary or relatedFiles is rejected and
\* leaves the stored task unchanged; and no step of these operations changes
\* a Completed task's status, description, dependencies, completedAt or
\* completionMetadata.
C6_CompletedTasksAreProtected ==
    /\ [](\A i \in DOMAIN tasks :
            tasks[i].status = TaskStatus.COMPLETED
            => CompletedTaskRejectsUpdates(tasks[i].id))
    /\ [][CompletedTasksKeepProtectedFields]_vars

\* A task verify_task completed, with its completion record, has since been
\* handed to updateTaskStatus at a later time, and the call returned null.
C6_Witness ==
    /\ ret.op = "updateTaskStatus"
    /\ ret.isNull
    /\ TargetCompleted
    /\ "completionMetadata" \in DOMAIN getTaskById(tasks, ret.taskId)
    /\ clock > getTaskById(tasks, ret.taskId).completedAt

\* C7: completionMetadata is persisted once, at the moment of completion.  In
\* every reachable state of the store a task carries completionMetadata only
\* if its status is Completed.
C7_MetadataOnlyWhenCompleted ==
    \A i \in DOMAIN tasks :
        "completionMetadata" \in DOMAIN tasks[i]
        => tasks[i].status = TaskStatus.COMPLETED

(***************************************************************************)
(* Claims about the episodic memory                                        *)
(***************************************************************************)

\* C10: storeEpisodicMemory stores an episode for every task assessed HIGH or
\* VERY_HIGH and skips, returning the episode id 'skipped_low_complexity'
\* without writing, exactly the tasks assessed LOW or MEDIUM; and every task
\* createTask routes to SYSTEM_2 / graphiti has an episode written.
C10_EpisodeForHighAndVeryHigh ==
    /\ \A i \in DOMAIN tasks :
          RoutedToSystem2(tasks[i].cognitiveRouting)
          => tasks[i].id \in DOMAIN episodes
    /\ ret.op = "storeEpisodicMemory"
       => LET level == getTaskById(tasks, ret.taskId).cognitiveRouting.level
          IN  /\ ret.episodeId = "skipped_low_complexity"
                 <=> level \in {TaskComplexityLevel.LOW, TaskComplexityLevel.MEDIUM}
              /\ level \in {TaskComplexityLevel.HIGH, TaskComplexityLevel.VERY_HIGH}
                 => ret.taskId \in DOMAIN episodes

\* The score applyHonestIncentives computes from what validateTaskEvidence and
\* detectInconsistencies return for the summary.
IncentiveScore(task, summary, baseScore, cfg) ==
    applyHonestIncentives(baseScore, validateTaskEvidence(task, summary).score,
                          detectInconsistencies(summary, cfg), cfg).adjustedScore

\* The configured suspicious keywords the summary does not hold yet.
KeywordsToAdd(summary, cfg) ==
    { cfg.suspiciousPatternKeywords[i] : i \in DOMAIN cfg.suspiciousPatternKeywords }
    \ { k \in { cfg.suspiciousPatternKeywords[i] :
                    i \in DOMAIN cfg.suspiciousPatternKeywords } :
            Includes(ToLowerCase(summary), ToLowerCase(k)) }

\* C11: monotonicity in suspicious keywords.  For the task, base score,
\* debate parameters and configuration of a calculateDebateScore call, the
\* same call on the summary with one more configured suspicious keyword added
\* returns a finalScore that is not greater, and applyHonestIncentives on the
\* validator's and detector's outputs for the longer summary returns an
\* adjustedScore that is not greater.
C11_MoreKeywordsNeverRaiseScore ==
    (scIn.fn = "calculateDebateScore" /\ scOut.returned) =>
        \A keyword \in KeywordsToAdd(scIn.summary, AntiObfuscationConfigOf(config)) :
            /\ calculateDebateScore(config, scIn.task,
                                    AddKeyword(scIn.summary, keyword),
                                    scIn.baseScore, scIn.debateParams).finalScore
                  <= scOut.value.finalScore
            /\ IncentiveScore(scIn.task, AddKeyword(scIn.summary, keyword),
                              scIn.baseScore, AntiObfuscationConfigOf(config))
                  <= IncentiveScore(scIn.task, scIn.summary, scIn.baseScore,
                                    AntiObfuscationConfigOf(config))

\* The keywords of the task's description, verification criteria and
\* implementation guide.
TaskKeywords(task) ==
    UNION { extractKeywords(task[field]) :
              field \in {"description", "verificationCriteria",
                         "implementationGuide"} \cap DOMAIN task }

SharesNoKeyword(task, summary) ==
    extractKeywords(summary) \cap TaskKeywords(task) = {}

\* C12: a summary that shares no keyword with the task (the empty summary
\* included) gets a consistency score below 50 and at least one issue from
\* validateTaskEvidence, and evidenceConsistency below 50 and a manipulation
\* risk other than LOW from performAntiObfuscationValidation.
C12_UnrelatedSummaryScoresBelow50 ==
    (scOut.returned /\ "summary" \in DOMAIN scIn
                    /\ SharesNoKeyword(scIn.task, scIn.summary)) =>
        /\ scIn.fn = "validateTaskEvidence" =>
                /\ scOut.value.score < 50
                /\ Len(scOut.value.issues) >= 1
        /\ scIn.fn = "performAntiObfuscationValidation" =>
                /\ scOut.value.evidenceConsistency < 50
                /\ scOut.value.manipulationRisk # "LOW"

(***************************************************************************)
(* Claims about the scores and the routing of the cognitive router         *)
(***************************************************************************)

\* C13: assessTaskComplexity returns a complexityScore within [0, 100], and
\* the returned level is the one of the cut points: Low up to 25, Medium up
\* to 50, High up to 75, Very High above.
C13_ScoreInRangeLevelByCutPoints ==
    rtOut.returned =>
        /\ rtOut.assessment.complexityScore \in 0..100
        /\ rtOut.assessment.level =
              (IF rtOut.assessment.complexityScore <= 25
               THEN TaskComplexityLevel.LOW
               ELSE IF rtOut.assessment.complexityScore <= 50
               THEN TaskComplexityLevel.MEDIUM
               ELSE IF rtOut.assessment.complexityScore <= 75
               THEN TaskComplexityLevel.HIGH
               ELSE TaskComplexityLevel.VERY_HIGH)

\* The router has assessed a task that collects every contribution at its
\* maximum: a long description, many dependencies, long notes and a temporal
\* keyword.
C13_Witness ==
    /\ rtOut.returned
    /\ Len(rtTask.description) >= graphitiThreshold
    /\ Len(rtTask.dependencies) >= dependencyThresholdHigh
    /\ NotesLength(rtTask) > TaskComplexityThresholds.NOTES_LENGTH.HIGH
    /\ rtOut.assessment.temporalContextRequired
    /\ rtOut.assessment.complexityScore = 100
    /\ rtOut.assessment.level = TaskComplexityLevel.VERY_HIGH

\* C14: the final score is always an integer in [0, 100].  Whatever the base
\* score in 0..100, the evidence score, the number of suspicious patterns,
\* the prover and estimator scores, the consensus points, the conflicts and
\* the intensity profile, calculateDebateScore returns a finalScore and
\* applyHonestIncentives an adjustedScore that is an integer of 0..100.
C14_FinalScoreInRange ==
    scOut.returned =>
        /\ scIn.fn = "calculateDebateScore" => scOut.value.finalScore \in 0..100
        /\ scIn.fn = "applyHonestIncentives" => scOut.value.adjustedScore \in 0..100

C16_DocumentedRoutingRanges ==
    rtOut.returned =>
        /\ rtOut.assessment.complexityScore <= 25 =>
              /\ rtOut.assessment.systemRecommendation = "SYSTEM_1"
              /\ rtOut.assessment.mcpServerTarget = "supabase"
        /\ rtOut.assessment.complexityScore >= 50 =>
              /\ rtOut.assessment.systemRecommendation = "SYSTEM_2"
              /\ rtOut.assessment.mcpServerTarget = "graphiti"
        /\ (rtOut.assessment.systemRecommendation = "HYBRID"
              \/ rtOut.assessment.mcpServerTarget = "hybrid") =>
              /\ rtOut.assessment.complexityScore > 25
              /\ rtOut.assessment.complexityScore < 50

(***************************************************************************)
(* Claims about the anti-obfuscation scores                                *)
(***************************************************************************)

\* The risk is the one the rule gives for this number of patterns detected
\* in the summary and this evidence score.
RiskFollowsRule(risk, patternCount, evidenceScore, evidenceThreshold) ==
    /\ risk \in {"HIGH", "MEDIUM", "LOW"}
    /\ risk = "HIGH" <=> (patternCount >= 3 \/ evidenceScore < 50)
    /\ risk = "MEDIUM" <=>
          /\ ~(patternCount >= 3 \/ evidenceScore < 50)
          /\ (patternCount >= 1 \/ evidenceScore < evidenceThreshold)

\* The summary holds one of the configured suspicious keywords.
HoldsSuspiciousKeyword(summary, cfg) ==
    \E i \in DOMAIN cfg.suspiciousPatternKeywords :
        Includes(ToLowerCase(summary), ToLowerCase(cfg.suspiciousPatternKeywords[i]))

\* C17: manipulation-risk classification.  performAntiObfuscationValidation
\* returns HIGH iff at least 3 suspicious patterns were detected in the
\* summary or the evidence score is below 50; otherwise MEDIUM iff at least 1
\* pattern was detected or the evidence score is below the configured
\* evidence threshold; otherwise LOW.  A summary that holds a configured
\* suspicious keyword never yields LOW.
C17_ManipulationRiskClassification ==
    (scIn.fn = "performAntiObfuscationValidation" /\ scOut.returned) =>
        /\ RiskFollowsRule(
              scOut.value.manipulationRisk,
              Len(detectInconsistencies(scIn.summary, AntiObfuscationConfigOf(config))),
              validateTaskEvidence(scIn.task, scIn.summary).score,
              AntiObfuscationConfigOf(config).evidenceThreshold)
        /\ HoldsSuspiciousKeyword(scIn.summary, AntiObfuscationConfigOf(config))
              => scOut.value.manipulationRisk # "LOW"

\* performAntiObfuscationValidation has returned HIGH for a summary with
\* exactly three patterns and an evidence score of 50 or more.
C17_Witness ==
    /\ scIn.fn = "performAntiObfuscationValidation"
    /\ scOut.returned
    /\ Len(detectInconsistencies(scIn.summary, AntiObfuscationConfigOf(config))) = 3
    /\ HoldsSuspiciousKeyword(scIn.summary, AntiObfuscationConfigOf(config))
    /\ scOut.value.evidenceConsistency >= 50
    /\ scOut.value.manipulationRisk = "HIGH"

\* applyHonestIncentives was called with an evidence score at or above the
\* configured threshold and without suspicious patterns, and has returned.
HonestCall ==
    /\ scIn.fn = "applyHonestIncentives"
    /\ scOut.returned
    /\ scIn.evidenceScore >= AntiObfuscationConfigOf(config).evidenceThreshold
    /\ Len(scIn.suspiciousPatterns) = 0

\* C18: the honesty bonus is never a penalty.  For every base score in
\* 0..100, an evidence score at or above the configured evidence threshold
\* and an empty list of suspicious patterns, applyHonestIncentives returns an
\* adjustedScore of at least the base score, and of at most the base score
\* plus 5 plus 2, clamped to 100.
C18_HonestyBonusNeverPenalty ==
    HonestCall =>
        /\ scOut.value.adjustedScore >= scIn.baseScore
        /\ scOut.value.adjustedScore <= Min(100, scIn.baseScore + 5 + 2)

\* An honest call at the evidence threshold came back with its base score
\* plus the flat 2.
C18_Witness ==
    /\ HonestCall
    /\ scIn.baseScore = 85
    /\ scIn.evidenceScore = AntiObfuscationConfigOf(config).evidenceThreshold
    /\ scOut.value.adjustedScore = 87

(***************************************************************************)
(* Claims about the debate score                                           *)
(***************************************************************************)

\* calculateDebateScore was called with the debate protocol enabled but
\* without proverScore or without estimatorScore, and has returned.
IncompleteDebateCall ==
    /\ scIn.fn = "calculateDebateScore"
    /\ scOut.returned
    /\ DebateEnabled(scIn.debateParams)
    /\ ~({"proverScore", "estimatorScore"} \subseteq DOMAIN scIn.debateParams)

\* C19: debate fallback.  When the debate protocol is enabled but proverScore
\* or estimatorScore is absent, calculateDebateScore returns a result (it
\* raises no error) without a debateBreakdown, whose finalScore is the one
\* the non-debate path returns for the same task, summary, base score and
\* configuration: with no debateParams, and with the same debateParams and
\* the protocol switched off.
C19_DebateFallback ==
    IncompleteDebateCall =>
        /\ "finalScore" \in DOMAIN scOut.value
        /\ scOut.value.finalScore \in 0..100
        /\ "debateBreakdown" \notin DOMAIN scOut.value
        /\ scOut.value.finalScore =
              calculateDebateScore(config, scIn.task, scIn.summary,
                                   scIn.baseScore, EmptyObj).finalScore
        /\ scOut.value.finalScore =
              calculateDebateScore(config, scIn.task, scIn.summary, scIn.baseScore,
                                   [scIn.debateParams EXCEPT
                                      !.enableDebateProtocol = FALSE]).finalScore

\* An enabled debate with a prover score and no estimator score has fallen
\* back, and the anti-obfuscation adjustment has lowered the base score.
C19_Witness ==
    /\ IncompleteDebateCall
    /\ "proverScore" \in DOMAIN scIn.debateParams
    /\ "debateBreakdown" \notin DOMAIN scOut.value
    /\ scOut.value.finalScore < scIn.baseScore

(***************************************************************************)
(* Claims about reassessCognitiveRouting                                   *)
(***************************************************************************)

\* The task is one that the last reassessCognitiveRouting counted in
\* `reassessed`: every task when no id was given, else the tasks named.
CountedInReassessed(task) ==
    /\ ret.op = "reassessCognitiveRouting"
    /\ \/ Len(ret.taskIds) = 0
       \/ \E j \in DOMAIN ret.taskIds : ret.taskIds[j] = task.id

\* C20: reassessment supersedes the stored assessment.  After
\* reassessCognitiveRouting, every task it counts in `reassessed`, whatever
\* the task's status, has a stored cognitiveRouting equal to the assessment
\* computed from the task's current fields.
C20_ReassessmentSupersedes ==
    \A i \in DOMAIN tasks :
        CountedInReassessed(tasks[i]) =>
            tasks[i].cognitiveRouting = assessTaskComplexity(tasks[i])

(***************************************************************************)
(* Claims about the configuration loader, continued                        *)
(***************************************************************************)

\* C21: configuration snapshot consistency.  The configuration a reader
\* obtained from getConfig() before an updateConfig call is not changed by
\* that call, accepted or rejected; the update swaps a new merged
\* configuration in, so what the reader holds is the whole old configuration
\* or, as long as it is the active object, the whole active configuration.
C21_SnapshotConsistency ==
    [][ /\ (reader.held /\ ret'.op = "updateConfig") =>
              /\ reader'.held
              /\ reader'.value = reader.value
        /\ (reader'.held /\ reader'.current) => reader'.value = config'
      ]_vars

\* A reader holds the configuration it was handed before an update that was
\* accepted: the old configuration, which differs from the active one.
C21_Witness ==
    /\ reader.held
    /\ ~reader.current
    /\ ret.op = "updateConfig"
    /\ ret.success
    /\ reader.value # config

\* The profile's three weights are present and sum to 1.0 within 0.01.
WeightSumHolds(w) ==
    /\ WeightKeys \subseteq DOMAIN w
    /\ Abs(w.prover + w.estimator + w.synthesis - 100) <= 1

\* The number of checked invariants a configuration violates: the weight sum
\* of each profile, the range of the completion threshold, the range of the
\* evidence threshold, the order of the confidence thresholds, a positive
\* maximum processing time and a positive maximum of recommendations.
ViolatedInvariants(cfg) ==
    Cardinality({ i \in DOMAIN Profiles :
                    ~WeightSumHolds(cfg.intensitySettings[Profiles[i]].weights) })
    + (IF /\ "completionThreshold" \in DOMAIN cfg.scoring
          /\ cfg.scoring.completionThreshold \in 0..100
       THEN 0 ELSE 1)
    + (IF /\ "evidenceThreshold" \in DOMAIN cfg.antiObfuscation
          /\ cfg.antiObfuscation.evidenceThreshold \in 0..100
       THEN 0 ELSE 1)
    + (IF /\ {"low", "medium", "high"} \subseteq DOMAIN cfg.scoring.confidenceThresholds
          /\ cfg.scoring.confidenceThresholds.low
                < cfg.scoring.confidenceThresholds.medium
          /\ cfg.scoring.confidenceThresholds.medium
                < cfg.scoring.confidenceThresholds.high
       THEN 0 ELSE 1)
    + (IF /\ "maxProcessingTimeMs" \in DOMAIN cfg.performance
          /\ cfg.performance.maxProcessingTimeMs > 0
       THEN 0 ELSE 1)
    + (IF /\ "maxRecommendations" \in DOMAIN cfg.performance
          /\ cfg.performance.maxRecommendations > 0
       THEN 0 ELSE 1)

\* C22: a failed configuration update reports every violated invariant in
\* one response.  When updateConfig answers success = false for a merged
\* configuration that violates k of the checked invariants, the error list it
\* returns holds k messages, one for each violation.
C22_EveryViolationReported ==
    [][ \A updates \in UpdateDocs :
            ( /\ ~ValidateThrows(mergeConfig(config, updates))
              /\ ret' = updateConfigReturn(config, updates)
              /\ ~ret'.success )
            => Len(ret'.errors) = ViolatedInvariants(mergeConfig(config, updates))
      ]_vars

\* calculateDebateScore was called with the debate protocol enabled and both
\* scores, and has returned.
CompleteDebateCall ==
    /\ scIn.fn = "calculateDebateScore"
    /\ scOut.returned
    /\ DebateEnabled(scIn.debateParams)
    /\ {"proverScore", "estimatorScore"} \subseteq DOMAIN scIn.debateParams

\* The profile of the active configuration that debateIntensity names.
NamedProfile(cfg, debateIntensity) ==
    IF debateIntensity = "LIGHT" THEN cfg.intensitySettings.light
    ELSE IF debateIntensity = "MODERATE" THEN cfg.intensitySettings.moderate
    ELSE cfg.intensitySettings.rigorous

\* clamp to [0,100] of prover*w_p + estimator*w_e + base*w_s
\* + consensusBonus*|consensusPoints| - conflictPenalty*|conflicts| - D, in
\* hundredths of a point.
BlendOf(profile, baseScore, proverScore, estimatorScore, consensus, conflicts) ==
    Max(0, Min(10000,
        proverScore * profile.weights.prover
        + estimatorScore * profile.weights.estimator
        + baseScore * profile.weights.synthesis
        + profile.incentives.consensusBonus * consensus
        - profile.incentives.conflictPenalty * conflicts
        - (IF Abs(proverScore - estimatorScore) > profile.incentives.maxScoreDiscrepancy
           THEN profile.incentives.scoreDiscrepancyPenalty
           ELSE 0)))

\* The blend the claim gives for the call scIn.
ClaimedBlend ==
    BlendOf(NamedProfile(config, scIn.debateParams.debateIntensity),
            scIn.baseScore, scIn.debateParams.proverScore,
            scIn.debateParams.estimatorScore,
            Len(ListOf(scIn.debateParams, "consensusPoints")),
            Len(ListOf(scIn.debateParams, "conflicts")))

\* C23: debate blending.  When the debate protocol is enabled and both
\* scores are supplied, the honest-equilibrium score before the
\* anti-obfuscation adjustment is the clamp to [0,100] of
\* prover*w_p + estimator*w_e + base*w_s + consensusBonus*|consensusPoints|
\* - conflictPenalty*|conflicts| - D with the weights and incentives of the
\* profile debateIntensity names in the active configuration, D being the
\* profile's scoreDiscrepancyPenalty exactly when |prover - estimator| is
\* strictly greater than maxScoreDiscrepancy.  With antiObfuscationEnabled
\* false the final score is the rounding of that value and is the same for
\* every summary; with it true the value reported is that blend after the
\* adjustment.
C23_DebateBlending ==
    ( /\ CompleteDebateCall
      /\ WeightKeys \subseteq
            DOMAIN NamedProfile(config, scIn.debateParams.debateIntensity).weights )
    => IF scIn.debateParams.antiObfuscationEnabled
       THEN scOut.value.debateBreakdown.honestEquilibriumScore =
               100 * applyAntiObfuscationAdjustment(
                        ClaimedBlend, scOut.value.antiObfuscationResult)
       ELSE /\ scOut.value.debateBreakdown.honestEquilibriumScore = ClaimedBlend
            /\ scOut.value.finalScore = Round(ClaimedBlend, 100)
            /\ \A summary \in {"", T_fakeSummary, T_unrelatedSummary} :
                  calculateDebateScore(config, scIn.task, summary, scIn.baseScore,
                                       scIn.debateParams).finalScore
                     = scOut.value.finalScore

\* A LIGHT debate whose scores differ by exactly maxScoreDiscrepancy was
\* scored without the discrepancy penalty: 95 * 0.4 + 60 * 0.3 + 100 * 0.3.
C23_Witness ==
    /\ CompleteDebateCall
    /\ ~scIn.debateParams.antiObfuscationEnabled
    /\ scIn.debateParams.debateIntensity = "LIGHT"
    /\ config = DEFAULT_DEBATE_CONFIG
    /\ Abs(scIn.debateParams.proverScore - scIn.debateParams.estimatorScore)
          = config.intensitySettings.light.incentives.maxScoreDiscrepancy
    /\ scIn.baseScore = 100
    /\ scOut.value.finalScore = 86

(***************************************************************************)
(* Claims about the MCP integration layer                                  *)
(***************************************************************************)

\* The backends the layer was called for by the last handler, in order.
BackendsCalled == [i \in DOMAIN mcp.calls |-> mcp.calls[i].server]

\* C24: a task whose stored routing target is hybrid is executed by
\* executeTaskWithCognitiveRouting through the coordinated hybrid operation:
\* the Supabase backend is called first and then the Graphiti backend; a
\* task with target supabase reaches only Supabase and a task with target
\* graphiti reaches only Graphiti.
C24_HybridCallsBothBackends ==
    ( /\ mcp.constructed
      /\ ret.op = "executeTaskWithCognitiveRouting"
      /\ "target" \in DOMAIN ret )
    => BackendsCalled =
          ( IF ret.target = "hybrid" THEN <<"supabase", "graphiti">>
            ELSE IF ret.target = "supabase" THEN <<"supabase">>
            ELSE <<"graphiti">> )

\* C25: checkConnectionStatus reports connected = false for a backend whose
\* probe call fails (the backend is disabled in the configuration, or the
\* tool call fails on every retry) and connected = true only for a backend
\* whose probe call succeeded.
C25_ConnectedIffProbeSucceeded ==
    ( /\ mcp.constructed
      /\ ret.op = "checkConnectionStatus" )
    => \A i \in DOMAIN mcp.calls :
          ret.status[mcp.calls[i].server].connected = mcp.calls[i].result.success

\* The wait the claim gives before retry k (k = 0, 1, ...).
ClaimedWait(retryConfig, k) ==
    Min(retryConfig.baseDelay * retryConfig.backoffMultiplier ^ k,
        retryConfig.maxDelay)

\* What holds of a call p of executeWithRetry at every moment: the
\* operation was invoked at most maxRetries + 1 times; a call that returned
\* did so at its first successful attempt; a call that failed made every
\* attempt and fails with the error of the last one; the waits are the
\* claimed ones, one after each failed attempt but the final one.
RetryWithinBounds(p) ==
    /\ p.invoked <= p.retryConfig.maxRetries + 1
    /\ p.pc = "returned"
          => /\ p.invoked = Len(p.errors) + 1
             /\ "result" \in DOMAIN p
    /\ p.pc = "threw"
          => /\ p.invoked = p.retryConfig.maxRetries + 1
             /\ Len(p.errors) = p.invoked
             /\ p.lastError = p.errors[Len(p.errors)]
    /\ \A k \in DOMAIN p.waits :
          p.waits[k] = ClaimedWait(p.retryConfig, k - 1)
    /\ Len(p.waits) =
          IF p.pc = "threw" THEN Len(p.errors) - 1 ELSE Len(p.errors)

RetryInProgress ==
    procs # <<>> /\ procs[1].op = "executeWithRetry" /\ ~RetryEnded(procs[1])

\* C26: executeWithRetry always terminates: it invokes the operation at
\* most maxRetries + 1 times, returns the result of the first successful
\* attempt without making further attempts, and when every attempt fails it
\* fails with the error of the last attempt; the wait before retry k
\* (k = 0, 1, ...) is min(baseDelay * backoffMultiplier^k, maxDelay) and no
\* wait follows the final attempt.
C26_RetryTerminatesWithinBounds ==
    /\ [](\A i \in DOMAIN procs :
             procs[i].op = "executeWithRetry" => RetryWithinBounds(procs[i]))
    /\ [][ (procs # <<>> /\ procs[1].op = "executeWithRetry" /\ RetryEnded(procs[1]))
              => (procs' # <<>> /\ procs'[1].invoked = 0) ]_procs
    /\ (RetryInProgress ~> ~RetryInProgress)

\* Every attempt of a call failed under a configuration whose maxDelay is
\* reached: four invocations, three waits, the last one capped.
C26_Witness ==
    /\ procs # <<>>
    /\ procs[1].op = "executeWithRetry"
    /\ procs[1].pc = "threw"
    /\ procs[1].invoked = DEFAULT_RETRY_CONFIG.maxRetries + 1
    /\ procs[1].waits = <<1000, 2000, 3000>>
    /\ procs[1].lastError = "MCP server unavailable"

(***************************************************************************)
(* Claims about batchCreateOrUpdateTasks                                   *)
(***************************************************************************)

\* C27: batchCreateOrUpdateTasks in append, overwrite and selective mode
\* never removes or alters a Completed task: every task that is Completed
\* in the store before the call is present and unchanged in the store after
\* the call, including when an input entry carries the same name as a
\* Completed task.
C27_BatchKeepsCompletedTasks ==
    [][ ( /\ ret'.op = "batchCreateOrUpdateTasks"
          /\ ret'.updateMode \in {"append", "overwrite", "selective"} )
        => \A i \in DOMAIN tasks :
              tasks[i].status = TaskStatus.COMPLETED
                 => \E j \in DOMAIN tasks' : tasks'[j] = tasks[i]
      ]_vars

\* C28: batchCreateOrUpdateTasks attaches to the task created or updated
\* for input entry i exactly the resolved dependencies of entry i, for
\* every i and every update mode; the returned list has one task per input
\* entry in input order.
C28_BatchDependenciesPerEntry ==
    [][ ret'.op = "batchCreateOrUpdateTasks"
        => \E st \in { afterCreateOrUpdate(tasks, episodes, idPool, ret'.taskDataList,
                                           ret'.updateMode, ret'.globals, clock) } :
              /\ ~ret'.threw
              /\ Len(ret'.newTasks) = Len(ret'.taskDataList)
              /\ \A i \in DOMAIN ret'.taskDataList :
                    /\ ret'.newTasks[i].name = ret'.taskDataList[i].name
                    /\ ret'.newTasks[i].dependencies =
                          resolvedDependencies(DependenciesOf(ret'.taskDataList[i]),
                                               st, 1)
      ]_vars

(***************************************************************************)
(* Claims about concurrent store operations                                *)
(***************************************************************************)

StoreCall(p) == p.op \in {"createTask", "updateTask", "deleteTask"}

\* Every call in procs is a store operation that has returned.
AllStoreCallsDone ==
    /\ procs # <<>>
    /\ \A i \in DOMAIN procs : StoreCall(procs[i]) /\ procs[i].pc = "done"

\* The list ts shows what the call p did: the task it created, the fields
\* it updated, or the absence of the task it deleted.
EffectIn(p, ts) ==
    IF p.op = "createTask"
    THEN \E j \in DOMAIN ts : ts[j].id = p.newId
    ELSE IF p.op = "updateTask"
    THEN /\ Exists(ts, p.args.taskId)
         /\ \A field \in DOMAIN p.args.updates :
               /\ field \in DOMAIN getTaskById(ts, p.args.taskId)
               /\ getTaskById(ts, p.args.taskId)[field] = p.args.updates[field]
    ELSE ~Exists(ts, p.args.taskId)

WouldWrite(p, ts) ==
    ComputedList(p, ts, IF p.op = "createTask" THEN p.newId ELSE "", clock)

LastOf(seq, n) == SubSeq(seq, Len(seq) - n + 1, Len(seq))

\* C30: after any sequence of recordRoutingDecision calls, the decision
\* history holds the most recent min(n, maxHistorySize) decisions in
\* arrival order, total_routing_decisions equals system1_calls +
\* system2_calls + hybrid_calls equals the number of calls n, and
\* correct_routing_decisions equals the number of recorded decisions whose
\* result succeeded (so it never exceeds the total).
C30_HistoryAndCounters ==
    monitor.constructed
    => /\ monitor.decisionHistory =
             LastOf(monitor.arrived, Min(Len(monitor.arrived), maxHistorySize))
       /\ monitor.metrics.accuracy_metrics.total_routing_decisions
             = Len(monitor.arrived)
       /\ monitor.metrics.system1_calls + monitor.metrics.system2_calls
             + monitor.metrics.hybrid_calls = Len(monitor.arrived)
       /\ monitor.metrics.accuracy_metrics.correct_routing_decisions
             = Cardinality({k \in DOMAIN monitor.arrived : monitor.arrived[k].success})
       /\ monitor.metrics.accuracy_metrics.correct_routing_decisions
             <= monitor.metrics.accuracy_metrics.total_routing_decisions

\* More decisions arrived than the history keeps, for each of the three
\* systems, and not all of them succeeded: the oldest one is gone.
C30_Witness ==
    /\ monitor.constructed
    /\ Len(monitor.arrived) > maxHistorySize
    /\ Len(monitor.decisionHistory) = maxHistorySize
    /\ monitor.decisionHistory[1] # monitor.arrived[1]
    /\ monitor.metrics.system1_calls > 0
    /\ monitor.metrics.system2_calls > 0
    /\ monitor.metrics.hybrid_calls > 0
    /\ 0 < monitor.metrics.accuracy_metrics.correct_routing_decisions
    /\ monitor.metrics.accuracy_metrics.correct_routing_decisions
          < monitor.metrics.accuracy_metrics.total_routing_decisions
====
